---------------------------- MODULE Spec2Model ----------------------------
(***************************************************************************)
(* Session lifecycle control of voice-utils.                               *)
(*                                                                         *)
(* Part I  (specification Spec): the event-based pipeline                  *)
(*   src/event_based/input_handler.py    StatefulKeyboardHandler           *)
(*   src/event_based/recording_signal_publisher.py RecordingSignalPublisher*)
(*   src/event_based/recording_workflow.py RecordingWorkflow + activities  *)
(*                                                                         *)
(*   specification SpecWF follows one RecordingWorkflow by itself;         *)
(*   SpecWFStop and SpecWFLive add fair scheduling, SpecWFLive with the    *)
(*   server's retries in full                                              *)
(*                                                                         *)
(* Part II (specification SpecKSH): the timed shortcut handler             *)
(*   src/input_handler.py                KeyboardShortcutHandler           *)
(*   specification SpecKSHHold is the handler built in hold mode           *)
(*                                                                         *)
(* Part III (specifications SpecEmit, SpecTrigger): callback dispatch      *)
(*   src/event_based/input_handler.py    on_signal, _emit_signal           *)
(*   src/input_handler.py                InputHandler                      *)
(*                                                                         *)
(* Part IV (specification SpecKC): the plain shortcut controller           *)
(*   src/keyboard_controller.py          KeyboardController                *)
(*                                                                         *)
(*   specification SpecParse applies _parse_key_combination to every      *)
(*   short shortcut string                                                 *)
(*                                                                         *)
(* Part V  (specification SpecRace): the StatefulKeyboardHandler callback  *)
(*   statement by statement, on the listener threads start() has made      *)
(*                                                                         *)
(* Part VI (specification SpecHold): KeyboardShortcutHandler in toggle     *)
(*   mode under the repeated press events of held keys                     *)
(*                                                                         *)
(* Part VII (specification SpecActivity): one execution of                 *)
(*   record_audio_activity with its AudioRecorder and its temp file        *)
(*                                                                         *)
(* Modelling conventions.                                                  *)
(*  - uuid4() is a fresh-value source: next_uuid counts the ids drawn.     *)
(*  - _handle_signal is modelled as called where an event loop is running, *)
(*    so asyncio.create_task queues one task per signal; asyncio starts    *)
(*    queued tasks in creation order and a task runs without interruption  *)
(*    up to its next await on the Temporal client.                         *)
(*  - The Temporal server, the worker and the audio device are the         *)
(*    environment: an RPC may succeed or raise, an activity may end, fail   *)
(*    or observe a cancellation request at a heartbeat.                    *)
(*  - time.time() is an integer count of tenths of a second.  It starts at *)
(*    Epoch, which like the wall clock is far above every configured       *)
(*    period, so that 0 keeps its role as the "never happened" sentinel.   *)
(***************************************************************************)
EXTENDS Integers, Sequences, FiniteSets, TLC

VARIABLES
    \* ---- StatefulKeyboardHandler
    h_pressed_keys,       \* self._pressed_keys
    recording_state,      \* self.recording_state
    current_session_id,   \* self.current_session_id (None is modelled as 0)
    next_uuid,            \* how many uuid4() values have been drawn
    emitted,              \* history: every signal passed to _emit_signal
    handler_calls,        \* history: _handle_activation / _handle_exit calls
    last_exit,            \* history: what the last _handle_exit call saw on entry
    signal_callbacks,     \* self._signal_callbacks: what each callback does
    delivered,            \* history: per emitted signal, the callbacks invoked
    propagated,           \* history: an exception left the last _on_key_press
    listeners,            \* the pynput listener threads followed statement by
                          \*   statement (Part V): where each is in its callback
    \* ---- RecordingSignalPublisher
    tasks,                \* the asyncio tasks made by _handle_signal
    active_workflows,     \* self.active_workflows, in insertion order
    start_calls,          \* history: workflows created at the server, per id
    \* ---- RecordingWorkflow instances and their recording activity
    wf,
    \* ---- KeyboardShortcutHandler (Part II)
    toggle_mode,              \* self.toggle_mode, fixed at construction
    pressed_keys,             \* self.pressed_keys
    is_recording,             \* self.is_recording
    recording_start_time,     \* self.recording_start_time
    last_recording_end_time,  \* self.last_recording_end_time
    last_shortcut_time,       \* self.last_shortcut_time
    exit_requested,           \* self.exit_requested is set (listener stopped)
    now,                      \* time.time()
    last_event,               \* history: "press" or "release", the last key event
    last_cmds,                \* history: commands the last key event triggered
    ever_started,             \* history: a START_RECORDING was triggered before
    deferred_stop,            \* history: a release of a record key was dropped
                              \*   by the minimum-duration gate in this recording
    press_log,                \* history: times of the record-combination presses
    cmd_log,                  \* history: <<command, time>> of what they triggered
    \* ---- InputHandler (Part III)
    command_callbacks,        \* self.command_callbacks: what each callback does
    last_trigger,             \* history: the last _trigger_command call
    \* ---- KeyboardController (Part IV)
    kc_start_stop_keys,       \* self.start_stop_keys
    kc_recording_mode,        \* self.recording_mode
    kc_pressed_keys,          \* self.pressed_keys
    kc_active,                \* self.active
    kc_last_shortcut_time,    \* self.last_shortcut_time
    kc_exit_requested,        \* self.exit_requested is set
    kc_last_cmds,             \* history: commands the last key event triggered
    combination_str,          \* the argument of _parse_key_combination
    parsed,                   \* history: how the _parse_key_combination call ended
    \* ---- KeyboardShortcutHandler, one hold of the record combination (Part VI)
    hold_cmds,                \* history: commands triggered since the last release
    \* ---- record_audio_activity, one execution (Part VII)
    activity                  \* where it is, its recorder, and the temp file

ebvars == <<h_pressed_keys, recording_state, current_session_id, next_uuid,
            emitted, handler_calls, last_exit, signal_callbacks, delivered,
            propagated, listeners, tasks, active_workflows, start_calls, wf>>
ksh == <<toggle_mode, pressed_keys, is_recording, recording_start_time,
         last_recording_end_time, last_shortcut_time, exit_requested, now,
         last_event, last_cmds, ever_started, deferred_stop, press_log, cmd_log>>
ih == <<command_callbacks, last_trigger>>
kcfields == <<kc_start_stop_keys, kc_recording_mode, kc_pressed_keys, kc_active,
              kc_last_shortcut_time, kc_exit_requested, kc_last_cmds,
              combination_str, parsed>>
kc == <<kcfields, hold_cmds, activity>>
vars == <<ebvars, ksh, ih, kc>>

---------------------------------------------------------------------------
(* Bounds of the model *)
MaxSessions == 2    \* session ids that may be drawn
MaxSignals == 3     \* key events are accepted while fewer signals were emitted
MaxAttempts == 2    \* attempts of one activity that are followed
MaxCallbacks == 3   \* callbacks that may be registered with one handler
MaxLen == 4         \* characters of a shortcut string
MaxChunks == 4              \* audio chunks followed in one recording
MaxListeners == 2   \* listener threads that start() may have made

Sessions == 1..MaxSessions
None == 0

---------------------------------------------------------------------------
(* events.py: the signals *)
StartRecordingSignal(s) == [type |-> "Start", session_id |-> s, reason |-> "-"]
StopRecordingSignal(s) == [type |-> "Stop", session_id |-> s, reason |-> "-"]
CancelRecordingSignal(s, r) == [type |-> "Cancel", session_id |-> s, reason |-> r]
ExitSignal == [type |-> "Exit", session_id |-> None, reason |-> "-"]

---------------------------------------------------------------------------
(* StatefulKeyboardHandler *)

\* The handler is built with the one-key shortcuts "." and "q": a press can
\* satisfy the activation combination, the exit combination, or (with the
\* other key still held) both.
HKeys == {".", "q"}
\* _parse_key_combination of activation_shortcut and of exit_shortcut
ActivationKeys == {"."}
ExitKeys == {"q"}

\* _is_combo_pressed: all(k in self._pressed_keys for k in combo)
IsComboPressed(combo, pressed) == \A k \in combo : k \in pressed

\* f"session-{uuid.uuid4()}": the n-th id drawn
NewSessionIdReused(n) == 1
NewSessionId(n) == n + 1

\* What a registered callback does when it is called: the publisher's
\* _handle_signal (app.py registers it; it queues a task), another callback
\* that returns, or one that raises an Exception
CallbackKinds == {"publisher", "ok", "raises"}

\* "for callback in callbacks: callback(...)" from the i-th callback on, with
\* the callbacks called so far.  isolated: each call sits in its own
\* try / except Exception, so a raise is logged and the loop goes on; otherwise
\* the first raise leaves the loop.
RECURSIVE CallInOrder(_, _, _, _)
CallInOrder(callbacks, i, called, isolated) ==
    IF i > Len(callbacks) THEN [called |-> called, raised |-> FALSE]
    ELSE IF callbacks[i] = "raises" /\ ~isolated
    THEN [called |-> Append(called, i), raised |-> TRUE]
    ELSE CallInOrder(callbacks, i + 1, Append(called, i), isolated)

EmitSignalNoCatch(callbacks, signal) == CallInOrder(callbacks, 1, <<>>, FALSE)

\* _emit_signal
EmitSignal(callbacks, signal) == CallInOrder(callbacks, 1, <<>>, TRUE)

\* The handler's fields as a record, so the two handlers compose in sequence
\* within one key press: st, sid, uuid, out (signals passed to _emit_signal),
\* calls, seen, cbs (the registered callbacks), delivered, raised (an
\* exception is propagating out of the handler).
Emit(h, signal) ==
    LET r == EmitSignal(h.cbs, signal)
    IN [h EXCEPT !.out = Append(@, signal),
                 !.delivered = Append(@, [registered |-> Len(h.cbs),
                                          called |-> [n \in DOMAIN r.called |->
                                                        <<r.called[n], signal>>]]),
                 !.raised = r.raised]

HandleActivationNoToggle(h) ==
    IF h.st = "IDLE"
    THEN LET s == NewSessionId(h.uuid)
         IN Emit([h EXCEPT !.sid = s, !.st = "RECORDING", !.uuid = h.uuid + 1,
                           !.calls = Append(h.calls, "activation")],
                 StartRecordingSignal(s))
    ELSE Emit([h EXCEPT !.calls = Append(h.calls, "activation")],
              StopRecordingSignal(h.sid))

HandleActivationKeepsSession(h) ==
    IF h.st = "IDLE"
    THEN LET s == NewSessionId(h.uuid)
         IN Emit([h EXCEPT !.sid = s, !.st = "RECORDING", !.uuid = h.uuid + 1,
                           !.calls = Append(h.calls, "activation")],
                 StartRecordingSignal(s))
    ELSE LET h0 == [h EXCEPT !.calls = Append(h.calls, "activation")]
             h1 == IF h.sid # None THEN Emit(h0, StopRecordingSignal(h.sid)) ELSE h0
         IN IF h1.raised THEN h1 ELSE [h1 EXCEPT !.st = "IDLE"]

\* _handle_activation
HandleActivation(h) ==
    IF h.st = "IDLE"
    THEN LET s == NewSessionId(h.uuid)
         IN Emit([h EXCEPT !.sid = s, !.st = "RECORDING", !.uuid = h.uuid + 1,
                           !.calls = Append(h.calls, "activation")],
                 StartRecordingSignal(s))
    ELSE LET h0 == [h EXCEPT !.calls = Append(h.calls, "activation")]
             h1 == IF h.sid # None THEN Emit(h0, StopRecordingSignal(h.sid)) ELSE h0
         IN IF h1.raised THEN h1 ELSE [h1 EXCEPT !.st = "IDLE", !.sid = None]

HandleExitNoCancel(h) ==
    LET h0 == [h EXCEPT !.calls = Append(h.calls, "exit"),
                        !.seen = [was_recording |-> h.st = "RECORDING",
                                  sid |-> h.sid, n_before |-> Len(h.out)]]
        h2 == Emit(h0, ExitSignal)
    IN IF h2.raised THEN h2 ELSE [h2 EXCEPT !.st = "IDLE", !.sid = None]

\* _handle_exit
HandleExit(h) ==
    LET h0 == [h EXCEPT !.calls = Append(h.calls, "exit"),
                        !.seen = [was_recording |-> h.st = "RECORDING",
                                  sid |-> h.sid, n_before |-> Len(h.out)]]
        h1 == IF h.st = "RECORDING" /\ h.sid # None
              THEN Emit(h0, CancelRecordingSignal(h.sid, "exit_requested"))
              ELSE h0
        h2 == IF h1.raised THEN h1 ELSE Emit(h1, ExitSignal)
    IN IF h2.raised THEN h2 ELSE [h2 EXCEPT !.st = "IDLE", !.sid = None]

---------------------------------------------------------------------------
(* RecordingSignalPublisher *)

\* workflow_id = f"recording-{signal.session_id}"
WorkflowId(s) == <<"recording", s>>

\* A Python dict as the sequence of its items in insertion order
DictHas(d, k) == \E i \in DOMAIN d : d[i].key = k
DictGet(d, k) == LET i == CHOOSE i \in DOMAIN d : d[i].key = k IN d[i].val
DictSet(d, k, v) ==
    IF DictHas(d, k)
    THEN [i \in DOMAIN d |-> IF d[i].key = k THEN [key |-> k, val |-> v] ELSE d[i]]
    ELSE Append(d, [key |-> k, val |-> v])
DictPop(d, k) == SelectSeq(d, LAMBDA e : e.key # k)

\* _handle_signal: asyncio.create_task(self._handle_<kind>(signal))
NewTask(sig) ==
    [kind |-> sig.type, sid |-> sig.session_id, reason |-> sig.reason,
     pc |-> "new", outcome |-> "none", lookups |-> 0, sent |-> <<>>,
     todo |-> <<>>]
\* the tasks queued for the deliveries of one key event: one per call of a
\* callback that is the publisher's _handle_signal
RECURSIVE HandleSignal(_, _)
HandleSignal(deliveries, callbacks) ==
    IF deliveries = <<>> THEN <<>>
    ELSE LET to_publisher ==
               SelectSeq(Head(deliveries).called,
                         LAMBDA c : callbacks[c[1]] = "publisher")
         IN [i \in DOMAIN to_publisher |-> NewTask(to_publisher[i][2])]
              \o HandleSignal(Tail(deliveries), callbacks)

---------------------------------------------------------------------------
(* RecordingWorkflow and record_audio_activity, one instance per session *)

\* pc: absent -> scheduled -> loop -> (stopping ->) await_result -> saving
\*     -> completed | cancelled | failed | returned_none
\* recording_task: none, running, cancel_requested, done, failed, cancelled
\* events: what _publish_event was called with, in order
\* history: acted_on is the branch that left the polling loop (none, natural,
\* stop, cancel); rec_attempts and save_attempts count how often
\* record_audio_activity and save_audio_file_activity were started
WfInit ==
    [pc |-> "absent", recording_task |-> "none", is_recording |-> FALSE,
     stop_signal_received |-> FALSE, cancel_signal_received |-> FALSE,
     cancel_reason |-> "-", events |-> <<>>,
     acted_on |-> "none", rec_attempts |-> 0, save_attempts |-> 0]

WfLive == {"scheduled", "loop", "stopping", "await_result", "saving"}
WfTerminal == {"completed", "cancelled", "failed", "returned_none"}

\* asyncio.Task.done(): finished in any way
TaskDone(t) == t \in {"done", "failed", "cancelled"}
\* asyncio.Task.cancelled(): finished by propagating the CancelledError
TaskCancelled(t) == t = "cancelled"

\* @workflow.signal stop_recording / cancel_recording
StopRecordingHandler(w) == [w EXCEPT !.stop_signal_received = TRUE]
CancelRecordingHandlerCancels(w, r) ==
    [w EXCEPT !.cancel_signal_received = TRUE, !.cancel_reason = r,
              !.recording_task = IF @ = "running" THEN "cancel_requested" ELSE @]
CancelRecordingHandler(w, r) ==
    [w EXCEPT !.cancel_signal_received = TRUE, !.cancel_reason = r]

---------------------------------------------------------------------------
(* Part II: KeyboardShortcutHandler (src/input_handler.py) *)

Epoch == 100                \* time.time() when the handler is constructed
MaxTime == 19               \* the clock is followed for this many tenths of a second

MinRecordingDuration == 10  \* min_recording_duration = 1.0 s
CooldownPeriod == 5         \* cooldown_period = 0.5 s
ShortcutCooldown == 5       \* self.shortcut_cooldown = 0.5 s

\* Keys as the handlers see them (key_val: the lower-cased character of a
\* character key, the Key member otherwise)
KshKeys == {"shift", "shift_l", ".", "q", "w"}

\* _parse_key_combination of the three shortcuts the handler is built with:
\* record_shortcut "shift+.", exit_shortcut "shift+q", cancel_shortcut "shift+w"
RecordKeys == <<"shift", ".">>
ExitComboKeys == <<"shift", "q">>
CancelKeys == <<"shift", "w">>

\* KEY_EQUIVALENTS
Modifiers == {"ctrl", "shift", "alt", "cmd"}
KeyEquivalents(k) ==
    CASE k = "ctrl" -> {"ctrl", "ctrl_l", "ctrl_r"}
      [] k = "shift" -> {"shift", "shift_l", "shift_r"}
      [] k = "alt" -> {"alt", "alt_l", "alt_r"}
      [] k = "cmd" -> {"cmd", "cmd_l", "cmd_r"}
      [] OTHER -> {}

Range(seq) == {seq[i] : i \in DOMAIN seq}

\* _is_combination_pressed: "." and the other non-modifier keys need the key
\* itself, a modifier is matched by any key of its equivalence group
IsCombinationPressed(combination, pressed) ==
    \A i \in DOMAIN combination :
        LET combo_key == combination[i]
        IN IF combo_key = "." THEN "." \in pressed
           ELSE IF combo_key \notin Modifiers THEN combo_key \in pressed
           ELSE \E k \in KeyEquivalents(combo_key) : k \in pressed

\* _can_start_recording at time t
CanStartRecordingNoCooldown(t, end_time) == TRUE
CanStartRecording(t, end_time) ==
    IF end_time = 0 THEN TRUE ELSE t - end_time >= CooldownPeriod

\* _can_stop_recording at time t
CanStopRecording(t, start_time) ==
    IF start_time = 0 THEN TRUE ELSE t - start_time >= MinRecordingDuration

\* "current_time - self.last_shortcut_time > self.shortcut_cooldown"
DebouncePassed(t, last) == t - last > ShortcutCooldown

\* _on_key_release: is the released key one that ends a hold-mode recording:
\* the period if the shortcut has it, a shortcut key, or an equivalent of a
\* shortcut modifier
ReleaseStops(key_val) ==
    \/ key_val = "." /\ "." \in Range(RecordKeys)
    \/ \E i \in DOMAIN RecordKeys :
          \/ key_val = RecordKeys[i]
          \/ RecordKeys[i] \in Modifiers /\ key_val \in KeyEquivalents(RecordKeys[i])

\* The scenario of section 8, in tenths of a second after its first press
ScenarioTimes == <<0, 3, 12, 13, 18>>
Off == <<-1>>
OnTrack(log) ==
    /\ log # Off
    /\ Len(log) <= Len(ScenarioTimes)
    /\ \A i \in DOMAIN log : log[i] - log[1] = ScenarioTimes[i]

KshInit ==
    /\ pressed_keys = {}
    /\ is_recording = FALSE
    /\ recording_start_time = 0
    /\ last_recording_end_time = 0
    /\ last_shortcut_time = 0
    /\ exit_requested = FALSE
    /\ now = Epoch
    /\ last_event = "none"
    /\ last_cmds = <<>>
    /\ ever_started = FALSE
    /\ deferred_stop = FALSE
    /\ press_log = <<>>
    /\ cmd_log = <<>>

---------------------------------------------------------------------------
EbInit ==
    /\ h_pressed_keys = {}
    /\ recording_state = "IDLE"
    /\ current_session_id = None
    /\ next_uuid = 0
    /\ emitted = <<>>
    /\ handler_calls = <<>>
    /\ last_exit = [was_recording |-> FALSE, sid |-> None, n_before |-> 0]
    /\ delivered = <<>>
    /\ propagated = FALSE
    /\ listeners = <<>>
    /\ tasks = <<>>
    /\ active_workflows = <<>>
    /\ start_calls = [s \in Sessions |-> 0]
    /\ wf = [s \in Sessions |-> WfInit]

\* InputHandler.__init__: no callback is registered for any command
Commands == {"START_RECORDING", "STOP_RECORDING", "CANCEL", "EXIT"}
IhInit ==
    /\ command_callbacks = [c \in Commands |-> <<>>]
    /\ last_trigger = [command |-> "NONE", registered |-> 0, called |-> <<>>,
                       raised |-> FALSE, args |-> "-", passed |-> <<>>]

\* A shortcut string is the sequence of its characters
Chars == {"+", ".", "a", "Q", "e", "s", "c"}
Strings == UNION {[1..n -> Chars] : n \in 0..MaxLen}

\* str.lower()
Lower(str) == [i \in DOMAIN str |-> IF str[i] = "Q" THEN "q" ELSE str[i]]

\* str.split("+") from position i on, cur being the segment read so far: the
\* segments between the separators, empty ones included ("" gives [""])
RECURSIVE SplitFrom(_, _, _)
SplitFrom(str, i, cur) ==
    IF i > Len(str) THEN <<cur>>
    ELSE IF str[i] = "+" THEN <<cur>> \o SplitFrom(str, i + 1, <<>>)
    ELSE SplitFrom(str, i + 1, Append(cur, str[i]))
Split(str) == SplitFrom(str, 1, <<>>)

\* KEY_MAPPINGS, the names that can be written with Chars
KeyMappingNames == {<<".">>, <<"e", "s", "c">>}

\* _parse_key_combination: a segment that is a KEY_MAPPINGS name gives the
\* mapped key, any other segment is kept as the key string itself; the call
\* returns the list and raises nothing
ParseKeyCombination(str) ==
    LET segments == Split(Lower(str))
    IN [raised |-> "nothing",
        keys |-> [i \in DOMAIN segments |->
                    [mapped |-> segments[i] \in KeyMappingNames,
                     key |-> segments[i]]]]

NotParsed == [raised |-> "not called", keys |-> <<>>]

\* KeyboardController.__init__ with its default arguments
\* record_audio_activity before it runs.  pc: scheduled -> loop -> returned |
\* raised | cancelled.  recorder_active is recorder.is_recording, chunks is
\* len(recorder.recorded_chunks), elapsed counts the passes of the loop,
\* cancel_requested is the cancellation the server holds for the next
\* heartbeat, temp_file tells whether /tmp/<session_id>.wav was written.
ActivityInit ==
    [pc |-> "scheduled", recorder_active |-> FALSE, chunks |-> 0, elapsed |-> 0,
     cancel_requested |-> FALSE, temp_file |-> FALSE]

KcInit ==
    /\ combination_str = <<>>
    /\ parsed = NotParsed
    /\ hold_cmds = <<>>
    /\ activity = ActivityInit
    /\ kc_start_stop_keys = <<"cmd", "shift", ".">>
    /\ kc_recording_mode = "TOGGLE"
    /\ kc_pressed_keys = {}
    /\ kc_active = FALSE
    /\ kc_last_shortcut_time = 0
    /\ kc_exit_requested = FALSE
    /\ kc_last_cmds = <<>>

\* setup_keyboard_input registers the publisher's _handle_signal
Init ==
    /\ EbInit
    /\ signal_callbacks = <<"publisher">>
    /\ KshInit
    /\ toggle_mode = FALSE
    /\ IhInit
    /\ KcInit

(* ---- key events of the StatefulKeyboardHandler ---- *)

\* _on_key_press: add the key, then the activation check, then the exit check
OnKeyPress(k) ==
    /\ Len(emitted) < MaxSignals
    /\ LET pressed == h_pressed_keys \cup {k}
           h0 == [st |-> recording_state, sid |-> current_session_id,
                  uuid |-> next_uuid, out |-> emitted, calls |-> handler_calls,
                  seen |-> last_exit, cbs |-> signal_callbacks,
                  delivered |-> delivered, raised |-> FALSE]
           h1 == IF IsComboPressed(ActivationKeys, pressed)
                 THEN HandleActivation(h0) ELSE h0
           h2 == IF ~h1.raised /\ IsComboPressed(ExitKeys, pressed)
                 THEN HandleExit(h1) ELSE h1
       IN /\ h2.uuid <= MaxSessions
          /\ h_pressed_keys' = pressed
          /\ recording_state' = h2.st
          /\ current_session_id' = h2.sid
          /\ next_uuid' = h2.uuid
          /\ emitted' = h2.out
          /\ handler_calls' = h2.calls
          /\ last_exit' = h2.seen
          /\ delivered' = h2.delivered
          /\ propagated' = h2.raised
          /\ tasks' = tasks \o HandleSignal(SubSeq(h2.delivered, Len(delivered) + 1,
                                                  Len(h2.delivered)),
                                           signal_callbacks)
    /\ UNCHANGED <<signal_callbacks, listeners, active_workflows, start_calls, wf,
                   ksh, ih, kc>>

\* _on_key_release: self._pressed_keys.discard(key)
OnKeyRelease(k) ==
    /\ k \in h_pressed_keys
    /\ h_pressed_keys' = h_pressed_keys \ {k}
    /\ UNCHANGED <<recording_state, current_session_id, next_uuid, emitted,
                   handler_calls, last_exit, signal_callbacks, delivered,
                   propagated, listeners, tasks, active_workflows, start_calls,
                   wf, ksh, ih, kc>>

(* ---- the publisher's asyncio tasks ---- *)

HandlerVars == <<h_pressed_keys, recording_state, current_session_id,
                 next_uuid, emitted, handler_calls, last_exit,
                 signal_callbacks, delivered, propagated, listeners>>

\* asyncio runs queued tasks first-in first-out
CanBegin(i, kind) ==
    /\ i \in DOMAIN tasks
    /\ tasks[i].kind = kind
    /\ tasks[i].pc = "new"
    /\ \A j \in 1..(i - 1) : tasks[j].pc # "new"

\* _handle_start_recording up to "await self.client.start_workflow(...)"
StartBegin(i) ==
    /\ CanBegin(i, "Start")
    /\ tasks' = [tasks EXCEPT ![i].pc = "await_start"]
    /\ UNCHANGED <<HandlerVars, active_workflows, start_calls, wf, ksh, ih, kc>>

\* the Temporal server creates the workflow execution
StartServerCreate(i) ==
    /\ i \in DOMAIN tasks
    /\ tasks[i].pc = "await_start"
    /\ LET s == tasks[i].sid
       IN /\ start_calls' = [start_calls EXCEPT ![s] = @ + 1]
          /\ wf' = IF wf[s].pc = "absent"
                   THEN [wf EXCEPT ![s].pc = "scheduled"] ELSE wf
    /\ tasks' = [tasks EXCEPT ![i].pc = "await_start_ack"]
    /\ UNCHANGED <<HandlerVars, active_workflows, ksh, ih, kc>>

\* start_workflow returns: self.active_workflows[session_id] = workflow_id
StartReturn(i) ==
    /\ i \in DOMAIN tasks
    /\ tasks[i].pc = "await_start_ack"
    /\ active_workflows' =
          DictSet(active_workflows, tasks[i].sid, WorkflowId(tasks[i].sid))
    /\ tasks' = [tasks EXCEPT ![i].pc = "done", ![i].outcome = "started"]
    /\ UNCHANGED <<HandlerVars, start_calls, wf, ksh, ih, kc>>

StartRaiseAdds(i) ==
    /\ i \in DOMAIN tasks
    /\ tasks[i].pc = "await_start"
    /\ tasks' = [tasks EXCEPT ![i].pc = "done", ![i].outcome = "error"]
    /\ active_workflows' =
          DictSet(active_workflows, tasks[i].sid, WorkflowId(tasks[i].sid))
    /\ UNCHANGED <<HandlerVars, start_calls, wf, ksh, ih, kc>>

\* start_workflow raises: "except Exception" logs and returns
StartRaise(i) ==
    /\ i \in DOMAIN tasks
    /\ tasks[i].pc = "await_start"
    /\ tasks' = [tasks EXCEPT ![i].pc = "done", ![i].outcome = "error"]
    /\ UNCHANGED <<HandlerVars, active_workflows, start_calls, wf, ksh, ih, kc>>

\* The shared opening of _handle_stop_recording and _handle_cancel_recording:
\* look the session up; absent -> warning and return; present -> get the
\* handle and "await handle.signal(...)".
LookupAndSignalNoCheck(t, table) ==
    [t EXCEPT !.pc = "await_signal", !.lookups = @ + 1,
              !.sent = Append(@, WorkflowId(t.sid))]
LookupAndSignal(t, table) ==
    IF ~DictHas(table, t.sid)
    THEN [t EXCEPT !.pc = "done", !.outcome = "noop"]
    ELSE [t EXCEPT !.pc = "await_signal", !.lookups = @ + 1,
                   !.sent = Append(@, DictGet(table, t.sid))]

StopBegin(i) ==
    /\ CanBegin(i, "Stop")
    /\ tasks' = [tasks EXCEPT ![i] = LookupAndSignal(tasks[i], active_workflows)]
    /\ UNCHANGED <<HandlerVars, active_workflows, start_calls, wf, ksh, ih, kc>>

CancelBegin(i) ==
    /\ CanBegin(i, "Cancel")
    /\ tasks' = [tasks EXCEPT ![i] = LookupAndSignal(tasks[i], active_workflows)]
    /\ UNCHANGED <<HandlerVars, active_workflows, start_calls, wf, ksh, ih, kc>>

\* _handle_exit: one pass of "for ... in list(self.active_workflows.items())"
\* up to the next await, or past the loop to self.active_workflows.clear()
ExitNext(t) ==
    IF t.todo = <<>>
    THEN [t EXCEPT !.pc = "done", !.outcome = "cleared"]
    ELSE [t EXCEPT !.pc = "await_signal", !.lookups = @ + 1,
                   !.sent = Append(@, Head(t.todo).val),
                   !.todo = Tail(@)]

ExitBegin(i) ==
    /\ CanBegin(i, "Exit")
    /\ LET t == ExitNext([tasks[i] EXCEPT !.todo = active_workflows])
       IN /\ tasks' = [tasks EXCEPT ![i] = t]
          /\ active_workflows' = IF t.pc = "done" THEN <<>> ELSE active_workflows
    /\ UNCHANGED <<HandlerVars, start_calls, wf, ksh, ih, kc>>

\* The workflow a pending handle.signal call addresses
SignalTarget(t) == t.sent[Len(t.sent)][2]

\* What each handler does after "await handle.signal(...)": ok = it returned,
\* ~ok = it raised
AfterSignal(t, ok) ==
    CASE t.kind = "Exit" -> ExitNext(t)
      [] ok -> [t EXCEPT !.pc = "done", !.outcome = "sent"]
      [] OTHER -> [t EXCEPT !.pc = "done", !.outcome = "error"]

TableAfterSignal(t, ok, table) ==
    CASE t.kind = "Exit" -> IF t.todo = <<>> THEN <<>> ELSE table
      [] t.kind = "Cancel" /\ ok -> DictPop(table, t.sid)
      [] OTHER -> table

\* handle.signal reaches a live workflow and returns
SignalReturn(i) ==
    /\ i \in DOMAIN tasks
    /\ tasks[i].pc = "await_signal"
    /\ LET t == tasks[i]
           s == SignalTarget(t)
       IN /\ wf[s].pc \in WfLive
          /\ wf' = [wf EXCEPT ![s] =
                      IF t.kind = "Stop" THEN StopRecordingHandler(@)
                      ELSE CancelRecordingHandler(@,
                             IF t.kind = "Exit" THEN "exit_requested" ELSE t.reason)]
          /\ tasks' = [tasks EXCEPT ![i] = AfterSignal(t, TRUE)]
          /\ active_workflows' = TableAfterSignal(t, TRUE, active_workflows)
    /\ UNCHANGED <<HandlerVars, start_calls, ksh, ih, kc>>

\* handle.signal raises (workflow already finished, or the RPC failed)
SignalRaise(i) ==
    /\ i \in DOMAIN tasks
    /\ tasks[i].pc = "await_signal"
    /\ LET t == tasks[i]
       IN /\ tasks' = [tasks EXCEPT ![i] = AfterSignal(t, FALSE)]
          /\ active_workflows' = TableAfterSignal(t, FALSE, active_workflows)
    /\ UNCHANGED <<HandlerVars, start_calls, wf, ksh, ih, kc>>

(* ---- RecordingWorkflow.run and the recording activity ---- *)

PubVars == <<tasks, active_workflows, start_calls>>

PublishTwice(w, e) == [w EXCEPT !.events = Append(Append(@, e), e)]
Publish(w, e) == [w EXCEPT !.events = Append(@, e)]

\* run() up to the polling loop: the recording task is created, RecordingStarted
\* is published, is_recording = True
WfRun(s) ==
    /\ wf[s].pc = "scheduled"
    /\ wf' = [wf EXCEPT ![s] =
                Publish([@ EXCEPT !.pc = "loop", !.recording_task = "running",
                                  !.rec_attempts = 1,
                                  !.is_recording = TRUE], "RecordingStarted")]
    /\ UNCHANGED <<HandlerVars, PubVars, ksh, ih, kc>>

CancelRecordingNoCancel(w) == [w EXCEPT !.is_recording = FALSE]

\* _cancel_recording: recording_task.cancel() if not done; is_recording = False
CancelRecording(w) ==
    [w EXCEPT !.recording_task = IF w.recording_task # "none" /\ ~TaskDone(w.recording_task)
                                 THEN "cancel_requested" ELSE @,
              !.is_recording = FALSE]

\* "if not self.recording_task.cancelled()": await the task, else return None
AfterLoop(w) ==
    IF ~TaskCancelled(w.recording_task)
    THEN [w EXCEPT !.pc = "await_result"]
    ELSE [w EXCEPT !.pc = "returned_none"]

\* One pass of "while self.is_recording" that does not end in the sleep:
\* natural completion first, then the stop flag, then the cancel flag
WfPoll(s) ==
    /\ wf[s].pc = "loop"
    /\ LET w == wf[s]
       IN \/ /\ TaskDone(w.recording_task)
             /\ wf' = [wf EXCEPT ![s] = AfterLoop([w EXCEPT !.acted_on = "natural"])]
          \/ /\ ~TaskDone(w.recording_task)
             /\ w.stop_signal_received
             \* _stop_recording: the task is not done, so it awaits
             \* stop_recording_activity
             /\ wf' = [wf EXCEPT ![s].pc = "stopping", ![s].acted_on = "stop"]
          \/ /\ ~TaskDone(w.recording_task)
             /\ ~w.stop_signal_received
             /\ w.cancel_signal_received
             /\ wf' = [wf EXCEPT ![s] =
                         AfterLoop(CancelRecording([w EXCEPT !.acted_on = "cancel"]))]
    /\ UNCHANGED <<HandlerVars, PubVars, ksh, ih, kc>>

\* stop_recording_activity returns (it only logs): is_recording = False,
\* RecordingStopped is published, the loop is left
WfStopped(s) ==
    /\ wf[s].pc = "stopping"
    /\ wf' = [wf EXCEPT ![s] =
                AfterLoop(Publish([@ EXCEPT !.is_recording = FALSE], "RecordingStopped"))]
    /\ UNCHANGED <<HandlerVars, PubVars, ksh, ih, kc>>

\* "except Exception": RecordingFailed is published and the error re-raised
WfExcept(w) == Publish([w EXCEPT !.pc = "failed"], "RecordingFailed")

\* "audio_file_path = await self.recording_task"
WfAwaitResult(s) ==
    /\ wf[s].pc = "await_result"
    /\ TaskDone(wf[s].recording_task)
    /\ wf' = [wf EXCEPT ![s] =
                CASE @.recording_task = "done" ->
                       [@ EXCEPT !.pc = "saving", !.save_attempts = 1]
                  [] @.recording_task = "failed" -> WfExcept(@)
                  \* asyncio.CancelledError is no Exception: it leaves run()
                  [] OTHER -> [@ EXCEPT !.pc = "cancelled"]]
    /\ UNCHANGED <<HandlerVars, PubVars, ksh, ih, kc>>

\* save_audio_file_activity returns: FileSaved is published and returned
WfSaved(s) ==
    /\ wf[s].pc = "saving"
    /\ wf' = [wf EXCEPT ![s] = Publish([@ EXCEPT !.pc = "completed"], "FileSaved")]
    /\ UNCHANGED <<HandlerVars, PubVars, ksh, ih, kc>>

\* stop_recording_activity or save_audio_file_activity raises
WfActivityRaise(s) ==
    /\ wf[s].pc \in {"stopping", "saving"}
    /\ wf' = [wf EXCEPT ![s] = WfExcept(@)]
    /\ UNCHANGED <<HandlerVars, PubVars, ksh, ih, kc>>

\* record_audio_activity ends by itself: the recorder went inactive or the
\* 300 s ceiling was reached; the temp file path is returned
ActivityEnds(s) ==
    /\ wf[s].recording_task = "running"
    /\ wf' = [wf EXCEPT ![s].recording_task = "done"]
    /\ UNCHANGED <<HandlerVars, PubVars, ksh, ih, kc>>

\* record_audio_activity raises
ActivityFails(s) ==
    /\ wf[s].recording_task = "running"
    /\ wf' = [wf EXCEPT ![s].recording_task = "failed"]
    /\ UNCHANGED <<HandlerVars, PubVars, ksh, ih, kc>>

\* the cancellation request reaches the activity at a heartbeat
ActivityCancelled(s) ==
    /\ wf[s].recording_task = "cancel_requested"
    /\ wf' = [wf EXCEPT ![s].recording_task = "cancelled"]
    /\ UNCHANGED <<HandlerVars, PubVars, ksh, ih, kc>>

Next ==
    \/ \E k \in HKeys : OnKeyPress(k)
    \/ \E k \in HKeys : OnKeyRelease(k)
    \/ \E i \in 1..(MaxSignals + 2) : StartBegin(i)
    \/ \E i \in 1..(MaxSignals + 2) : StartServerCreate(i)
    \/ \E i \in 1..(MaxSignals + 2) : StartReturn(i)
    \/ \E i \in 1..(MaxSignals + 2) : StartRaise(i)
    \/ \E i \in 1..(MaxSignals + 2) : StopBegin(i)
    \/ \E i \in 1..(MaxSignals + 2) : CancelBegin(i)
    \/ \E i \in 1..(MaxSignals + 2) : ExitBegin(i)
    \/ \E i \in 1..(MaxSignals + 2) : SignalReturn(i)
    \/ \E i \in 1..(MaxSignals + 2) : SignalRaise(i)
    \/ \E s \in Sessions : WfRun(s)
    \/ \E s \in Sessions : WfPoll(s)
    \/ \E s \in Sessions : WfStopped(s)
    \/ \E s \in Sessions : WfAwaitResult(s)
    \/ \E s \in Sessions : WfSaved(s)
    \/ \E s \in Sessions : WfActivityRaise(s)
    \/ \E s \in Sessions : ActivityEnds(s)
    \/ \E s \in Sessions : ActivityFails(s)
    \/ \E s \in Sessions : ActivityCancelled(s)

Spec == Init /\ [][Next]_vars

---------------------------------------------------------------------------
(* Part I: properties *)

Recording(s) == wf[s].recording_task \in {"running", "cancel_requested"}

\* C1: at most one recording session is active: the recording activities of
\* two different sessions are never both running.
C1_AtMostOneRecording ==
    \A s1, s2 \in Sessions : Recording(s1) /\ Recording(s2) => s1 = s2

\* C2: from IDLE, n consecutive activation presses emit exactly n signals,
\* Start, Stop, Start, ... and leave the state RECORDING, IDLE, RECORDING, ...
OnlyActivations == \A i \in DOMAIN handler_calls : handler_calls[i] = "activation"
C2_PressesAlternate ==
    OnlyActivations =>
        /\ Len(emitted) = Len(handler_calls)
        /\ \A i \in DOMAIN emitted :
              emitted[i].type = IF i % 2 = 1 THEN "Start" ELSE "Stop"
        /\ recording_state = IF Len(handler_calls) % 2 = 1 THEN "RECORDING" ELSE "IDLE"
C2_Witness ==
    /\ handler_calls = <<"activation", "activation", "activation">>
    /\ [i \in DOMAIN emitted |-> emitted[i].type] = <<"Start", "Stop", "Start">>

\* C3: _handle_exit while RECORDING emits exactly Cancel(current session,
\* "exit_requested") then Exit; while IDLE exactly Exit; afterwards the state
\* is IDLE and current_session_id is None.
LastCallIsExit ==
    handler_calls # <<>> /\ handler_calls[Len(handler_calls)] = "exit"
C3_ExitEmits ==
    LastCallIsExit =>
        LET k == last_exit.n_before
        IN /\ recording_state = "IDLE"
           /\ current_session_id = None
           /\ IF last_exit.was_recording
              THEN /\ Len(emitted) = k + 2
                   /\ emitted[k + 1] =
                        CancelRecordingSignal(last_exit.sid, "exit_requested")
                   /\ last_exit.sid # None
                   /\ emitted[k + 2] = ExitSignal
              ELSE /\ Len(emitted) = k + 1
                   /\ emitted[k + 1] = ExitSignal
C3_Witness ==
    /\ LastCallIsExit
    /\ last_exit.was_recording
    /\ Len(emitted) = last_exit.n_before + 2

\* C4: active_workflows holds at most one entry per session id, each entry
\* maps s to "recording-" + s, and no workflow is started twice for one id.
C4_OneEntryPerSession ==
    /\ \A i, j \in DOMAIN active_workflows :
          active_workflows[i].key = active_workflows[j].key => i = j
    /\ \A i \in DOMAIN active_workflows :
          active_workflows[i].val = WorkflowId(active_workflows[i].key)
    /\ \A s \in Sessions : start_calls[s] <= 1
C4_Witness ==
    /\ Len(active_workflows) = 2
    /\ \A s \in {1, 2} : start_calls[s] = 1

\* C5: once a Stop for a session present in active_workflows has been handled
\* and the session has reached a terminal status, the session id is no longer
\* in active_workflows.
C5_StoppedEntryRemoved ==
    \A i \in DOMAIN tasks :
        (/\ tasks[i].kind = "Stop"
         /\ tasks[i].outcome = "sent"
         /\ wf[tasks[i].sid].pc \in WfTerminal)
        => ~DictHas(active_workflows, tasks[i].sid)

\* C6: once _handle_exit has completed, active_workflows is empty and every
\* workflow started for a Start signal emitted before the Exit (also one whose
\* Start handler was still awaiting start_workflow) has been sent a
\* cancel_recording with reason "exit_requested".
CancelSentTo(s) ==
    \E j \in DOMAIN tasks :
        /\ \E n \in DOMAIN tasks[j].sent : tasks[j].sent[n] = WorkflowId(s)
        /\ \/ tasks[j].kind = "Exit"
           \/ tasks[j].kind = "Cancel" /\ tasks[j].reason = "exit_requested"
C6_ExitLeavesNoOrphan ==
    \A i \in DOMAIN tasks :
        (tasks[i].kind = "Exit" /\ tasks[i].pc = "done") =>
            \A j \in 1..(i - 1) :
                (tasks[j].kind = "Start" /\ start_calls[tasks[j].sid] > 0) =>
                    /\ ~DictHas(active_workflows, tasks[j].sid)
                    /\ CancelSentTo(tasks[j].sid)

\* C7: a Stop or Cancel for a session id absent from active_workflows is a
\* no-op: no handle is looked up, no signal is sent, active_workflows is
\* unchanged and the handler returns without an error.
StaleBegins(i) ==
    /\ tasks[i].kind \in {"Stop", "Cancel"}
    /\ tasks[i].pc = "new"
    /\ tasks'[i].pc # "new"
    /\ ~DictHas(active_workflows, tasks[i].sid)
C7_StaleIsNoop ==
    [][\A i \in DOMAIN tasks :
          StaleBegins(i) =>
              /\ tasks'[i].pc = "done"
              /\ tasks'[i].outcome = "noop"
              /\ tasks'[i].lookups = 0
              /\ tasks'[i].sent = <<>>
              /\ active_workflows' = active_workflows
              /\ wf' = wf]_vars
C7_Witness ==
    \E i \in DOMAIN tasks : tasks[i].kind = "Stop" /\ tasks[i].outcome = "noop"

\* C12: when a recording workflow completes naturally (no Stop, no Cancel),
\* the handler is back in IDLE with no current session without a key event, so
\* the next activation press emits a Start for a new session, not a Stop for
\* the completed one.
NaturallyCompleted(s) ==
    /\ s \in Sessions
    /\ wf[s].pc = "completed"
    /\ ~wf[s].stop_signal_received
    /\ ~wf[s].cancel_signal_received
C12_CompletionResetsHandler ==
    [][\A k \in HKeys :
          (/\ OnKeyPress(k)
           /\ IsComboPressed(ActivationKeys, h_pressed_keys')
           /\ NaturallyCompleted(current_session_id))
          => /\ Len(emitted') > Len(emitted)
             /\ emitted'[Len(emitted) + 1].type = "Start"
             /\ emitted'[Len(emitted) + 1].session_id # current_session_id]_vars

\* C17: every Stop and Cancel signal the handler emits carries the session id
\* of the most recent Start signal emitted before it, and the session ids of
\* any two Start signals differ.
LastStartBefore(i) ==
    CHOOSE j \in 0..(i - 1) :
        /\ j # 0 => emitted[j].type = "Start"
        /\ \A n \in (j + 1)..(i - 1) : emitted[n].type # "Start"
C17_SignalsCarrySession ==
    /\ \A i \in DOMAIN emitted :
          emitted[i].type \in {"Stop", "Cancel"} =>
              /\ LastStartBefore(i) # 0
              /\ emitted[i].session_id = emitted[LastStartBefore(i)].session_id
    /\ \A i, j \in DOMAIN emitted :
          (/\ emitted[i].type = "Start" /\ emitted[j].type = "Start"
           /\ emitted[i].session_id = emitted[j].session_id) => i = j
C17_Witness ==
    [i \in DOMAIN emitted |-> emitted[i].type] = <<"Start", "Stop", "Start">>
        /\ emitted[2].session_id = emitted[1].session_id
        /\ emitted[3].session_id # emitted[1].session_id

\* C18: recording_state is RECORDING if and only if current_session_id is not
\* None, after any sequence of activation and exit operations (initially IDLE
\* with None).
C18_StateMatchesSession ==
    (recording_state = "RECORDING") <=> (current_session_id # None)
C18_Witness ==
    /\ handler_calls = <<"exit", "activation">>
    /\ recording_state = "RECORDING"
    /\ current_session_id # None

\* C22: when start_workflow fails in _handle_start_recording the handler
\* ends normally (the error is logged, not raised), active_workflows is what
\* it was before, and the session id is not in it.
StartFails(i) ==
    /\ tasks[i].kind = "Start"
    /\ tasks[i].pc \in {"await_start", "await_start_ack"}
    /\ tasks'[i].outcome = "error"
C22_StartFailureLeavesTable ==
    [][\A i \in DOMAIN tasks :
          StartFails(i) =>
             /\ tasks'[i].pc = "done"
             /\ active_workflows' = active_workflows
             /\ ~DictHas(active_workflows', tasks[i].sid)]_vars
C22_Witness ==
    /\ active_workflows # <<>>
    /\ \E i \in DOMAIN tasks :
          /\ tasks[i].kind = "Start"
          /\ tasks[i].outcome = "error"
          /\ ~DictHas(active_workflows, tasks[i].sid)

\* C23: handling a Cancel for a session present in active_workflows sends
\* exactly one cancel_recording signal, to that session's workflow and to no
\* other, and when the handler is done the session id is absent from
\* active_workflows while all other entries are as they were.
CancelCompletes(i) ==
    /\ tasks[i].kind = "Cancel"
    /\ tasks[i].pc = "await_signal"
    /\ tasks'[i].pc = "done"
C23_CancelRemovesOnlyItsEntry ==
    [][\A i \in DOMAIN tasks :
          CancelCompletes(i) =>
             /\ tasks'[i].sent = <<WorkflowId(tasks[i].sid)>>
             /\ ~DictHas(active_workflows', tasks[i].sid)
             /\ active_workflows' = DictPop(active_workflows, tasks[i].sid)]_vars

\* C25: after the handler has emitted an ExitSignal no later key event makes
\* it emit a StartRecordingSignal, StopRecordingSignal or
\* CancelRecordingSignal: Exit is the last signal of every run.
C25_ExitIsLast ==
    \A i, j \in DOMAIN emitted :
        (emitted[i].type = "Exit" /\ i < j) =>
            emitted[j].type \notin {"Start", "Stop", "Cancel"}

\* C28: a Stop emitted for a session whose Start was emitted earlier is
\* delivered to that session's workflow in every interleaving of the
\* publisher's handler tasks, also when it is handled while the Start handler
\* still awaits start_workflow: it is never dropped as "no active workflow"
\* (unless starting the workflow failed, so that there is none).
StartFailed(s) ==
    \E j \in DOMAIN tasks :
        tasks[j].kind = "Start" /\ tasks[j].sid = s /\ tasks[j].outcome = "error"
C28_StopNeverDropped ==
    \A i \in DOMAIN tasks :
        (tasks[i].kind = "Stop" /\ tasks[i].outcome = "noop")
            => StartFailed(tasks[i].sid)

---------------------------------------------------------------------------
(* Part I, the workflow by itself (specification SpecWF): RecordingWorkflow  *)
(* driven through its Temporal entry points by any client, with the server's *)
(* activity retries.                                                         *)

\* a client starts the workflow: @workflow.run is scheduled
ClientStart(s) ==
    /\ wf[s].pc = "absent"
    /\ wf' = [wf EXCEPT ![s].pc = "scheduled"]
    /\ UNCHANGED <<HandlerVars, PubVars, ksh, ih, kc>>

\* a client signals stop_recording to the running workflow
ClientSignalStop(s) ==
    /\ wf[s].pc \in WfLive
    /\ ~wf[s].stop_signal_received
    /\ wf' = [wf EXCEPT ![s] = StopRecordingHandler(@)]
    /\ UNCHANGED <<HandlerVars, PubVars, ksh, ih, kc>>

\* a client signals cancel_recording to the running workflow
ClientSignalCancel(s) ==
    /\ wf[s].pc \in WfLive
    /\ ~wf[s].cancel_signal_received
    /\ wf' = [wf EXCEPT ![s] = CancelRecordingHandler(@, "exit_requested")]
    /\ UNCHANGED <<HandlerVars, PubVars, ksh, ih, kc>>

\* record_audio_activity raises and the failure is retryable: execute_activity
\* is called without a retry_policy, so the server's default policy (no limit
\* on attempts) starts the activity again and the workflow's task keeps waiting
RecordRetried(s) ==
    /\ wf[s].recording_task = "running"
    /\ wf[s].rec_attempts < MaxAttempts
    /\ wf' = [wf EXCEPT ![s].rec_attempts = @ + 1]
    /\ UNCHANGED <<HandlerVars, PubVars, ksh, ih, kc>>

\* the same for save_audio_file_activity
SaveRetried(s) ==
    /\ wf[s].pc = "saving"
    /\ wf[s].save_attempts < MaxAttempts
    /\ wf' = [wf EXCEPT ![s].save_attempts = @ + 1]
    /\ UNCHANGED <<HandlerVars, PubVars, ksh, ih, kc>>

\* workflow instances share no state: one of them is followed
WfSessions == {1}

NextWF ==
    \/ \E s \in WfSessions : ClientStart(s)
    \/ \E s \in WfSessions : ClientSignalStop(s)
    \/ \E s \in WfSessions : ClientSignalCancel(s)
    \/ \E s \in WfSessions : WfRun(s)
    \/ \E s \in WfSessions : WfPoll(s)
    \/ \E s \in WfSessions : WfStopped(s)
    \/ \E s \in WfSessions : WfAwaitResult(s)
    \/ \E s \in WfSessions : WfSaved(s)
    \/ \E s \in WfSessions : WfActivityRaise(s)
    \/ \E s \in WfSessions : ActivityEnds(s)
    \/ \E s \in WfSessions : ActivityFails(s)
    \/ \E s \in WfSessions : ActivityCancelled(s)
    \/ \E s \in WfSessions : RecordRetried(s)
    \/ \E s \in WfSessions : SaveRetried(s)

SpecWF == Init /\ [][NextWF]_vars

Count(events, e) == Cardinality({i \in DOMAIN events : events[i] = e})

\* C14: on Stop the workflow publishes FileSaved first and RecordingStopped
\* second for that session, each exactly once.
C14_SavedThenStopped ==
    \A s \in Sessions :
        wf[s].acted_on = "stop" =>
            LET ev == wf[s].events
            IN /\ \A i \in DOMAIN ev :
                     ev[i] = "RecordingStopped" =>
                         \E j \in 1..(i - 1) : ev[j] = "FileSaved"
               /\ wf[s].pc = "completed" =>
                     /\ Count(ev, "FileSaved") = 1
                     /\ Count(ev, "RecordingStopped") = 1

\* C15: once the workflow has observed a cancel signal (its loop acted on the
\* cancel flag) it publishes neither FileSaved nor RecordingStopped for the
\* session and does not run the save activity.
C15_CancelPublishesNothing ==
    \A s \in Sessions :
        wf[s].acted_on = "cancel" =>
            /\ Count(wf[s].events, "FileSaved") = 0
            /\ Count(wf[s].events, "RecordingStopped") = 0
            /\ wf[s].save_attempts = 0
            /\ wf[s].pc \notin {"saving", "completed"}
C15_Witness ==
    \E s \in Sessions :
        /\ wf[s].acted_on = "cancel"
        /\ wf[s].cancel_reason = "exit_requested"
        /\ wf[s].pc = "cancelled"

\* C16: on failure of the recording or save activity exactly one
\* RecordingFailed is published for the session, no FileSaved is published,
\* the activity is not started again, and the error is re-raised.
C16_FailureNotRetried ==
    \A s \in Sessions :
        /\ wf[s].rec_attempts <= 1
        /\ wf[s].save_attempts <= 1
        /\ wf[s].pc = "failed" =>
              /\ Count(wf[s].events, "RecordingFailed") = 1
              /\ Count(wf[s].events, "FileSaved") = 0
        /\ (wf[s].recording_task = "failed" /\ wf[s].pc \in WfTerminal) =>
              wf[s].pc = "failed"

\* what the polling loop saw when it was left through branch b
Observed(w, b) ==
    CASE b = "natural" -> TaskDone(w.recording_task)
      [] b = "stop" -> ~TaskDone(w.recording_task) /\ w.stop_signal_received
      [] b = "cancel" -> /\ ~TaskDone(w.recording_task)
                         /\ ~w.stop_signal_received
                         /\ w.cancel_signal_received
      [] OTHER -> FALSE

\* C33: per session the polling loop acts on exactly one of natural completion,
\* Stop and Cancel, the first it observes in its order of tests, and what
\* arrives afterwards has no effect: the branch acted on never changes, there
\* is at most one RecordingStopped and only after acting on Stop, a recording
\* acted on as stopped or completed is never cancelled, a recording acted on
\* as cancelled is never saved, and a signal that arrives after the loop has
\* acted changes nothing but its own flag.
C33_ActsOnExactlyOne ==
    [][\A s \in WfSessions :
          LET w == wf[s]
              v == wf'[s]
          IN /\ w.acted_on # "none" => v.acted_on = w.acted_on
             /\ (w.acted_on = "none" /\ v.acted_on # "none") => Observed(w, v.acted_on)
             /\ Count(v.events, "RecordingStopped") <= 1
             /\ v.acted_on # "stop" => Count(v.events, "RecordingStopped") = 0
             /\ v.acted_on \in {"natural", "stop"} =>
                   v.recording_task \notin {"cancel_requested", "cancelled"}
             /\ v.acted_on = "cancel" =>
                   /\ v.save_attempts = 0
                   /\ v.pc \notin {"saving", "completed"}
             /\ (w.acted_on # "none" /\ (ClientSignalStop(s) \/ ClientSignalCancel(s))) =>
                   /\ v.pc = w.pc
                   /\ v.recording_task = w.recording_task
                   /\ v.is_recording = w.is_recording
                   /\ v.events = w.events]_vars
\* the loop acted on Cancel and the recording ended cancelled; the Stop that
\* is flagged came afterwards (a Stop flagged earlier would have been acted on)
C33_Witness ==
    \E s \in WfSessions :
        /\ wf[s].acted_on = "cancel"
        /\ wf[s].stop_signal_received
        /\ wf[s].pc = "cancelled"
        /\ wf[s].events = <<"RecordingStarted">>

\* C35: per session RecordingStarted is published exactly once and before
\* any other event; RecordingStopped, FileSaved and RecordingFailed are each
\* published at most once; FileSaved and RecordingFailed are never both
\* published.
C35_EventOrder ==
    \A s \in Sessions :
        LET ev == wf[s].events
        IN /\ wf[s].pc \notin {"absent", "scheduled"} =>
                 Count(ev, "RecordingStarted") = 1
           /\ ev # <<>> => ev[1] = "RecordingStarted"
           /\ Count(ev, "RecordingStarted") <= 1
           /\ Count(ev, "RecordingStopped") <= 1
           /\ Count(ev, "FileSaved") <= 1
           /\ Count(ev, "RecordingFailed") <= 1
           /\ Count(ev, "FileSaved") + Count(ev, "RecordingFailed") <= 1
\* a session that was stopped and then failed in its save
C35_Witness ==
    \E s \in Sessions :
        /\ wf[s].pc = "failed"
        /\ wf[s].save_attempts > 0
        /\ wf[s].events = <<"RecordingStarted", "RecordingStopped", "RecordingFailed">>

\* One step of the coroutine run(): each is taken as soon as what it awaits
\* is there (Temporal schedules a workflow task whenever the workflow can go on)
WfStep(s) ==
    \/ WfRun(s)
    \/ WfPoll(s)
    \/ WfStopped(s)
    \/ WfAwaitResult(s)
    \/ WfSaved(s)

\* The workflow is scheduled fairly and a requested cancellation reaches the
\* activity at its next heartbeat.  Nothing is assumed about when
\* record_audio_activity ends by itself: its loop runs while recorder.is_active(),
\* up to the 300 s ceiling.
SpecWFStop ==
    /\ SpecWF
    /\ \A s \in WfSessions : WF_vars(WfStep(s))
    /\ \A s \in WfSessions : WF_vars(ActivityCancelled(s))

RecordAttemptFails(s) ==
    /\ wf[s].recording_task = "running"
    /\ wf' = [wf EXCEPT ![s].recording_task = "backoff"]
    /\ UNCHANGED <<HandlerVars, PubVars, ksh, ih, kc>>

\* the interval is over: the next attempt starts
RecordAttemptStarts(s) ==
    /\ wf[s].recording_task = "backoff"
    /\ wf' = [wf EXCEPT ![s].recording_task = "running",
                        ![s].rec_attempts = IF @ < MaxAttempts THEN @ + 1 ELSE @]
    /\ UNCHANGED <<HandlerVars, PubVars, ksh, ih, kc>>

\* the same for save_audio_file_activity, which run() is awaiting
SaveAttemptFails(s) ==
    /\ wf[s].pc = "saving"
    /\ wf' = [wf EXCEPT ![s].pc = "save_backoff"]
    /\ UNCHANGED <<HandlerVars, PubVars, ksh, ih, kc>>

SaveAttemptStarts(s) ==
    /\ wf[s].pc = "save_backoff"
    /\ wf' = [wf EXCEPT ![s].pc = "saving",
                        ![s].save_attempts = IF @ < MaxAttempts THEN @ + 1 ELSE @]
    /\ UNCHANGED <<HandlerVars, PubVars, ksh, ih, kc>>

NextWFLive ==
    \/ \E s \in WfSessions : ClientStart(s)
    \/ \E s \in WfSessions : ClientSignalStop(s)
    \/ \E s \in WfSessions : ClientSignalCancel(s)
    \/ \E s \in WfSessions : WfRun(s)
    \/ \E s \in WfSessions : WfPoll(s)
    \/ \E s \in WfSessions : WfStopped(s)
    \/ \E s \in WfSessions : WfAwaitResult(s)
    \/ \E s \in WfSessions : WfSaved(s)
    \/ \E s \in WfSessions : WfActivityRaise(s)
    \/ \E s \in WfSessions : ActivityEnds(s)
    \/ \E s \in WfSessions : ActivityFails(s)
    \/ \E s \in WfSessions : ActivityCancelled(s)
    \/ \E s \in WfSessions : RecordAttemptFails(s)
    \/ \E s \in WfSessions : RecordAttemptStarts(s)
    \/ \E s \in WfSessions : SaveAttemptFails(s)
    \/ \E s \in WfSessions : SaveAttemptStarts(s)

\* an attempt of the recording activity comes to its end, one way or another
\* (the 300 s ceiling at the latest)
RecordAttemptFinishes(s) ==
    \/ ActivityEnds(s)
    \/ ActivityFails(s)
    \/ RecordAttemptFails(s)

\* Fair scheduling: the workflow's steps, the delivery of a cancellation, the
\* end of every activity attempt and the start of every retry.  Signals need
\* no condition: a delivered signal is a flag already set.
SpecWFLive ==
    /\ Init /\ [][NextWFLive]_vars
    /\ \A s \in WfSessions : WF_vars(WfStep(s))
    /\ \A s \in WfSessions : WF_vars(ActivityCancelled(s))
    /\ \A s \in WfSessions : WF_vars(RecordAttemptFinishes(s))
    /\ \A s \in WfSessions : WF_vars(RecordAttemptStarts(s))
    /\ \A s \in WfSessions : WF_vars(WfActivityRaise(s) \/ SaveAttemptFails(s))
    /\ \A s \in WfSessions : WF_vars(SaveAttemptStarts(s))

\* C34: every started workflow eventually terminates: run() returns FileSaved,
\* is cancelled, or publishes RecordingFailed and raises.
C34_Terminates ==
    \A s \in WfSessions :
        (wf[s].pc = "scheduled") ~> (wf[s].pc \in WfTerminal)

---------------------------------------------------------------------------
(* Part II: the key events of KeyboardShortcutHandler *)

KshHistory == <<last_event, last_cmds, ever_started, deferred_stop, press_log, cmd_log>>

\* What one call of _on_key_press decides, given the pressed set after the
\* key was added: the command triggered and the fields after the call.
NoEffect ==
    [cmd |-> "NONE", rec |-> is_recording, start |-> recording_start_time,
     end |-> last_recording_end_time, shortcut |-> last_shortcut_time,
     exit |-> FALSE]

TogglePressStaysRecording ==
    IF ~DebouncePassed(now, last_shortcut_time) THEN NoEffect
    ELSE IF ~is_recording
    THEN IF CanStartRecording(now, last_recording_end_time)
         THEN [NoEffect EXCEPT !.shortcut = now, !.rec = TRUE, !.start = now,
                               !.cmd = "START_RECORDING"]
         ELSE [NoEffect EXCEPT !.shortcut = now]
    ELSE IF CanStopRecording(now, recording_start_time)
         THEN [NoEffect EXCEPT !.shortcut = now, !.end = now,
                               !.cmd = "STOP_RECORDING"]
         ELSE [NoEffect EXCEPT !.shortcut = now]

\* toggle mode, record combination pressed
TogglePress ==
    IF ~DebouncePassed(now, last_shortcut_time) THEN NoEffect
    ELSE IF ~is_recording
    THEN IF CanStartRecording(now, last_recording_end_time)
         THEN [NoEffect EXCEPT !.shortcut = now, !.rec = TRUE, !.start = now,
                               !.cmd = "START_RECORDING"]
         ELSE [NoEffect EXCEPT !.shortcut = now]
    ELSE IF CanStopRecording(now, recording_start_time)
         THEN [NoEffect EXCEPT !.shortcut = now, !.rec = FALSE, !.end = now,
                               !.cmd = "STOP_RECORDING"]
         ELSE [NoEffect EXCEPT !.shortcut = now]

HoldPressRestarts ==
    IF CanStartRecording(now, last_recording_end_time)
    THEN [NoEffect EXCEPT !.rec = TRUE, !.start = now,
                          !.cmd = IF is_recording THEN "NONE" ELSE "START_RECORDING"]
    ELSE NoEffect

HoldPressWhileRecording ==
    IF CanStartRecording(now, last_recording_end_time)
    THEN [NoEffect EXCEPT !.rec = TRUE, !.start = now, !.cmd = "START_RECORDING"]
    ELSE NoEffect

\* hold mode, record combination pressed
HoldPress ==
    IF ~is_recording /\ CanStartRecording(now, last_recording_end_time)
    THEN [NoEffect EXCEPT !.rec = TRUE, !.start = now, !.cmd = "START_RECORDING"]
    ELSE NoEffect

PressEffectNoCancel(pressed) ==
    IF IsCombinationPressed(ExitComboKeys, pressed)
    THEN [NoEffect EXCEPT !.cmd = "EXIT", !.exit = TRUE]
    ELSE IF IsCombinationPressed(RecordKeys, pressed)
    THEN IF toggle_mode THEN TogglePress ELSE HoldPress
    ELSE NoEffect

PressEffectCancelFirst(pressed) ==
    IF is_recording /\ IsCombinationPressed(CancelKeys, pressed)
    THEN [NoEffect EXCEPT !.rec = FALSE, !.end = now, !.cmd = "CANCEL"]
    ELSE IF IsCombinationPressed(ExitComboKeys, pressed)
    THEN [NoEffect EXCEPT !.cmd = "EXIT", !.exit = TRUE]
    ELSE IF IsCombinationPressed(RecordKeys, pressed)
    THEN IF toggle_mode THEN TogglePress ELSE HoldPress
    ELSE NoEffect

\* the fixed order: exit, cancel (only while recording), record
PressEffect(pressed) ==
    IF IsCombinationPressed(ExitComboKeys, pressed)
    THEN [NoEffect EXCEPT !.cmd = "EXIT", !.exit = TRUE]
    ELSE IF is_recording /\ IsCombinationPressed(CancelKeys, pressed)
    THEN [NoEffect EXCEPT !.rec = FALSE, !.end = now, !.cmd = "CANCEL"]
    ELSE IF IsCombinationPressed(RecordKeys, pressed)
    THEN IF toggle_mode THEN TogglePress ELSE HoldPress
    ELSE NoEffect

ReleaseEffectAnyMode(key_val) ==
    IF is_recording
          /\ CanStopRecording(now, recording_start_time) /\ ReleaseStops(key_val)
    THEN [NoEffect EXCEPT !.rec = FALSE, !.end = now, !.cmd = "STOP_RECORDING"]
    ELSE NoEffect

ReleaseEffectExactKey(key_val) ==
    IF ~toggle_mode /\ is_recording
          /\ CanStopRecording(now, recording_start_time) /\ key_val \in Range(RecordKeys)
    THEN [NoEffect EXCEPT !.rec = FALSE, !.end = now, !.cmd = "STOP_RECORDING"]
    ELSE NoEffect

\* _on_key_release decides, for the released key
ReleaseEffect(key_val) ==
    IF ~toggle_mode /\ is_recording
          /\ CanStopRecording(now, recording_start_time) /\ ReleaseStops(key_val)
    THEN [NoEffect EXCEPT !.rec = FALSE, !.end = now, !.cmd = "STOP_RECORDING"]
    ELSE NoEffect

\* a press that satisfies the record combination and neither other one
RecordPress(pressed) ==
    /\ IsCombinationPressed(RecordKeys, pressed)
    /\ ~IsCombinationPressed(ExitComboKeys, pressed)
    /\ ~IsCombinationPressed(CancelKeys, pressed)

Apply(e) ==
    /\ is_recording' = e.rec
    /\ recording_start_time' = e.start
    /\ last_recording_end_time' = e.end
    /\ last_shortcut_time' = e.shortcut
    /\ exit_requested' = e.exit
    /\ last_cmds' = IF e.cmd = "NONE" THEN <<>> ELSE <<e.cmd>>
    /\ ever_started' = (ever_started \/ e.cmd = "START_RECORDING")

\* _on_key_press, what it does to the handler's fields
KshPress(k) ==
    /\ ~exit_requested
    /\ LET pressed == pressed_keys \cup {k}
           e == PressEffect(pressed)
           log == IF press_log = Off \/ ~toggle_mode
                       \/ IsCombinationPressed(ExitComboKeys, pressed)
                       \/ IsCombinationPressed(CancelKeys, pressed)
                  THEN Off
                  ELSE IF ~RecordPress(pressed) THEN press_log
                  ELSE IF OnTrack(Append(press_log, now))
                       THEN Append(press_log, now) ELSE Off
       IN /\ pressed_keys' = pressed
          /\ Apply(e)
          /\ last_event' = "press"
          /\ deferred_stop' = IF e.cmd = "NONE" THEN deferred_stop ELSE FALSE
          /\ press_log' = log
          /\ cmd_log' = IF log = Off THEN <<>>
                        ELSE IF e.cmd = "NONE" THEN cmd_log
                        ELSE Append(cmd_log, <<e.cmd, now - log[1]>>)
    /\ UNCHANGED <<toggle_mode, now>>

KshKeyPress(k) ==
    /\ KshPress(k)
    /\ UNCHANGED <<ebvars, ih, kc>>

\* _on_key_release, what it does to the handler's fields
KshRelease(k) ==
    /\ ~exit_requested
    /\ LET e == ReleaseEffect(k)
       IN /\ pressed_keys' = pressed_keys \ {k}
          /\ Apply(e)
          /\ last_event' = "release"
          /\ deferred_stop' =
                IF e.cmd # "NONE" THEN FALSE
                ELSE IF ~toggle_mode /\ is_recording /\ ReleaseStops(k)
                THEN TRUE ELSE deferred_stop
    /\ UNCHANGED <<toggle_mode, now, press_log, cmd_log>>

KshKeyRelease(k) ==
    /\ KshRelease(k)
    /\ UNCHANGED <<ebvars, ih, kc>>

\* time passes
Tick ==
    /\ ~exit_requested
    /\ now < Epoch + MaxTime
    /\ now' = now + 1
    /\ UNCHANGED <<ebvars, ih, kc, toggle_mode, pressed_keys, is_recording,
                   recording_start_time, last_recording_end_time,
                   last_shortcut_time, exit_requested, KshHistory>>

InitKSH ==
    /\ EbInit
    /\ signal_callbacks = <<"publisher">>
    /\ KshInit
    /\ toggle_mode \in BOOLEAN
    /\ IhInit
    /\ KcInit

NextKSH ==
    \/ \E k \in KshKeys : KshKeyPress(k)
    \/ \E k \in KshKeys : KshKeyRelease(k)
    \/ Tick

SpecKSH == InitKSH /\ [][NextKSH]_vars

---------------------------------------------------------------------------
(* Part II: properties *)

\* C8: toggle mode, min_recording_duration 1.0, cooldown_period 0.5: record
\* presses at t = 0, 0.3, 1.2, 1.3, 1.8 trigger exactly START_RECORDING (0),
\* STOP_RECORDING (1.2), START_RECORDING (1.8); the presses at 0.3 and 1.3
\* trigger nothing and leave is_recording unchanged.
ScenarioCmds ==
    << <<"START_RECORDING", 0>>, <<"STOP_RECORDING", 12>>, <<"START_RECORDING", 18>> >>
CmdsAfter(n) == IF n = 0 THEN 0 ELSE IF n <= 2 THEN 1 ELSE IF n <= 4 THEN 2 ELSE 3
C8_ToggleScenario ==
    (toggle_mode /\ press_log # Off) =>
        /\ cmd_log = SubSeq(ScenarioCmds, 1, CmdsAfter(Len(press_log)))
        /\ is_recording = (CmdsAfter(Len(press_log)) % 2 = 1)
C8_Witness ==
    /\ toggle_mode
    /\ press_log # Off
    /\ Len(press_log) = Len(ScenarioTimes)
    /\ cmd_log = ScenarioCmds

\* C9: in both modes a press that satisfies the record combination while not
\* recording, less than cooldown_period after the previous recording ended,
\* triggers no START_RECORDING and leaves is_recording False; the first-ever
\* press is never blocked by the cooldown.
C9_CooldownBlocksStart ==
    [][\A k \in KshKeys :
          (/\ KshKeyPress(k)
           /\ IsCombinationPressed(RecordKeys, pressed_keys')
           /\ ~is_recording)
          => /\ (last_recording_end_time # 0
                   /\ now - last_recording_end_time < CooldownPeriod)
                => (~is_recording' /\ last_cmds' # <<"START_RECORDING">>)
             /\ (~ever_started /\ ~IsCombinationPressed(ExitComboKeys, pressed_keys'))
                => (is_recording' /\ last_cmds' = <<"START_RECORDING">>)]_vars
C9_Witness ==
    /\ ~toggle_mode
    /\ last_event = "press"
    /\ last_cmds = <<>>
    /\ IsCombinationPressed(RecordKeys, pressed_keys)
    /\ ~IsCombinationPressed(ExitComboKeys, pressed_keys)
    /\ ~is_recording
    /\ last_recording_end_time # 0
    /\ now - last_recording_end_time < CooldownPeriod

\* C10: hold mode: when the record combination is released before
\* min_recording_duration has elapsed, a STOP_RECORDING is triggered once the
\* duration has elapsed: the recording does not stay active past it.
C10_DeferredStopHappens ==
    (~toggle_mode /\ deferred_stop /\ is_recording)
        => now - recording_start_time <= MinRecordingDuration

\* C11: when the exit combination is pressed while is_recording is True, a
\* CANCEL command is triggered before the EXIT command, and after the event
\* is_recording is False.
C11_ExitCancelsFirst ==
    [][\A k \in KshKeys :
          (/\ KshKeyPress(k)
           /\ IsCombinationPressed(ExitComboKeys, pressed_keys')
           /\ is_recording)
          => /\ last_cmds' = <<"CANCEL", "EXIT">>
             /\ ~is_recording']_vars

\* A key press after which the cancel combination is satisfied and the exit
\* combination, which is looked at first, is not
CancelPress(k) ==
    /\ KshKeyPress(k)
    /\ IsCombinationPressed(CancelKeys, pressed_keys \cup {k})
    /\ ~IsCombinationPressed(ExitComboKeys, pressed_keys \cup {k})
TimingState == <<recording_start_time, last_recording_end_time, last_shortcut_time>>

C26_OneCommandInFixedOrder ==
    [][/\ Len(last_cmds') <= 1
       /\ \A k \in KshKeys :
             KshKeyPress(k) =>
                LET pressed == pressed_keys \cup {k}
                IN IF IsCombinationPressed(ExitComboKeys, pressed)
                   THEN last_cmds' = <<"EXIT">>
                   ELSE IF is_recording /\ IsCombinationPressed(CancelKeys, pressed)
                   THEN last_cmds' = <<"CANCEL">>
                   ELSE IF IsCombinationPressed(RecordKeys, pressed)
                   THEN last_cmds' \in {<<>>, <<"START_RECORDING">>, <<"STOP_RECORDING">>}
                   ELSE last_cmds' = <<>>
       /\ \A k \in KshKeys :
             KshKeyRelease(k) => last_cmds' \in {<<>>, <<"STOP_RECORDING">>}]_vars
C26_Witness ==
    /\ last_event = "press"
    /\ last_cmds = <<"EXIT">>
    /\ is_recording
    /\ IsCombinationPressed(ExitComboKeys, pressed_keys)
    /\ IsCombinationPressed(CancelKeys, pressed_keys)
    /\ IsCombinationPressed(RecordKeys, pressed_keys)

\* C36: in both modes and for every sequence of key events and times the
\* triggered commands alternate and is_recording follows them: a key event
\* triggers START_RECORDING only while not recording and then is_recording is
\* True, it triggers STOP_RECORDING or CANCEL only while recording and then
\* is_recording is False, and nothing else changes is_recording.
C36_CommandsAlternate ==
    [][/\ \A k \in KshKeys :
             (KshKeyPress(k) \/ KshKeyRelease(k)) =>
                 /\ Len(last_cmds') <= 1
                 /\ last_cmds' = <<"START_RECORDING">> => (~is_recording /\ is_recording')
                 /\ last_cmds' \in {<<"STOP_RECORDING">>, <<"CANCEL">>} =>
                       (is_recording /\ ~is_recording')
                 /\ last_cmds' \in {<<>>, <<"EXIT">>} => is_recording' = is_recording
       /\ Tick => is_recording' = is_recording]_vars
\* a second recording: START_RECORDING was just triggered and an earlier
\* recording has ended
C36_Witness ==
    /\ is_recording
    /\ last_cmds = <<"START_RECORDING">>
    /\ last_recording_end_time # 0
    /\ recording_start_time > last_recording_end_time

\* KeyboardShortcutHandler(toggle_mode=False): hold mode
InitKSHHold ==
    /\ InitKSH
    /\ ~toggle_mode

SpecKSHHold == InitKSHHold /\ [][NextKSH]_vars

\* C37: hold mode, recording, minimum duration elapsed: the release of a key
\* of the record combination, or of a left/right variant of one of its
\* modifiers, triggers exactly one STOP_RECORDING and sets is_recording False;
\* the release of any other key triggers nothing and leaves is_recording True.
C37_ReleaseStops ==
    [][\A k \in KshKeys :
          ( /\ KshKeyRelease(k)
            /\ ~toggle_mode
            /\ is_recording
            /\ now - recording_start_time >= MinRecordingDuration )
          => IF \E i \in DOMAIN RecordKeys :
                    \/ k = RecordKeys[i]
                    \/ k \in KeyEquivalents(RecordKeys[i])
             THEN last_cmds' = <<"STOP_RECORDING">> /\ ~is_recording'
             ELSE last_cmds' = <<>> /\ is_recording']_vars
\* the recording was ended by the release of the left shift key
C37_Witness ==
    /\ ~toggle_mode
    /\ last_event = "release"
    /\ last_cmds = <<"STOP_RECORDING">>
    /\ ~is_recording
    /\ last_recording_end_time = now
    /\ "shift" \in pressed_keys
    /\ "." \in pressed_keys
    /\ "shift_l" \notin pressed_keys

HoldPressWhileActive(k) ==
    /\ KshKeyPress(k)
    /\ ~toggle_mode
    /\ is_recording

\* C39 as stated: in hold mode a press event received while recording
\* triggers no command and leaves is_recording and recording_start_time
\* unchanged, and START_RECORDING is triggered only from not recording.
C39_PressWhileRecordingIsNoop ==
    [][\A k \in KshKeys :
          /\ HoldPressWhileActive(k) =>
                /\ last_cmds' = <<>>
                /\ is_recording'
                /\ recording_start_time' = recording_start_time
          /\ (KshKeyPress(k) /\ ~toggle_mode /\ last_cmds' = <<"START_RECORDING">>)
                => ~is_recording]_vars

\* C39, amended: in hold mode a press event received while recording that
\* completes neither the exit nor the cancel combination (a repeat of the
\* held record combination, for one) triggers no command and leaves
\* is_recording and recording_start_time unchanged; START_RECORDING is
\* triggered only from not recording.
C39_RecordPressWhileRecordingIsNoop ==
    [][\A k \in KshKeys :
          /\ ( /\ HoldPressWhileActive(k)
               /\ ~IsCombinationPressed(ExitComboKeys, pressed_keys \cup {k})
               /\ ~IsCombinationPressed(CancelKeys, pressed_keys \cup {k}) ) =>
                /\ last_cmds' = <<>>
                /\ is_recording'
                /\ recording_start_time' = recording_start_time
          /\ (KshKeyPress(k) /\ ~toggle_mode /\ last_cmds' = <<"START_RECORDING">>)
                => ~is_recording]_vars
\* the held record combination was pressed again later in the recording
C39_Witness ==
    /\ ~toggle_mode
    /\ last_event = "press"
    /\ last_cmds = <<>>
    /\ is_recording
    /\ pressed_keys = {"shift", "."}
    /\ now > recording_start_time
    /\ CanStartRecording(now, last_recording_end_time)

---------------------------------------------------------------------------
(* Part III: callback dispatch.                                            *)
(* Specification SpecEmit: StatefulKeyboardHandler with any callbacks      *)
(* registered through on_signal.  Specification SpecTrigger: InputHandler  *)
(* with any callbacks registered through on_command.                       *)

\* on_signal(callback): self._signal_callbacks.append(callback)
OnSignal(b) ==
    /\ Len(signal_callbacks) < MaxCallbacks
    /\ signal_callbacks' = Append(signal_callbacks, b)
    /\ UNCHANGED <<h_pressed_keys, recording_state, current_session_id,
                   next_uuid, emitted, handler_calls, last_exit, delivered,
                   propagated, listeners, PubVars, wf, ksh, ih, kc>>

InitEmit ==
    /\ EbInit
    /\ signal_callbacks = <<>>
    /\ KshInit
    /\ toggle_mode = FALSE
    /\ IhInit
    /\ KcInit

NextEmit ==
    \/ \E b \in {"ok", "raises"} : OnSignal(b)
    \/ \E k \in HKeys : OnKeyPress(k)
    \/ \E k \in HKeys : OnKeyRelease(k)

SpecEmit == InitEmit /\ [][NextEmit]_vars

\* C19: when a registered signal callback raises, the exception does not
\* reach the key-event handler, every callback registered at the time is
\* still invoked with the same signal, in order, and the handler's state
\* transition is applied: the state is the one that follows the last signal.
C19_ListenerFailuresIsolated ==
    /\ ~propagated
    /\ Len(delivered) = Len(emitted)
    /\ \A j \in DOMAIN delivered :
          delivered[j].called =
              [i \in 1..delivered[j].registered |-> <<i, emitted[j]>>]
    /\ IF emitted # <<>> /\ emitted[Len(emitted)].type = "Start"
       THEN /\ recording_state = "RECORDING"
            /\ current_session_id = emitted[Len(emitted)].session_id
       ELSE /\ recording_state = "IDLE"
            /\ current_session_id = None
C19_Witness ==
    /\ signal_callbacks = <<"raises", "ok">>
    /\ Len(emitted) = 2
    /\ emitted[2].type = "Stop"
    /\ delivered[2].called = << <<1, emitted[2]>>, <<2, emitted[2]>> >>
    /\ recording_state = "IDLE"

\* InputHandler._trigger_command: the loop over the callbacks of the command
TriggerCommand(callbacks) == CallInOrder(callbacks, 1, <<>>, FALSE)

\* on_command(command, callback)
OnCommand(c, b) ==
    /\ Len(command_callbacks["START_RECORDING"]) + Len(command_callbacks["STOP_RECORDING"])
         + Len(command_callbacks["CANCEL"]) + Len(command_callbacks["EXIT"]) < MaxCallbacks
    /\ command_callbacks' =
          IF c \in DOMAIN command_callbacks
          THEN [command_callbacks EXCEPT ![c] = Append(@, b)]
          ELSE command_callbacks
    /\ UNCHANGED <<ebvars, ksh, last_trigger, kc>>

\* what *args, **kwargs stand for in a _trigger_command call
TriggerArgs == {"no_args", "test_arg"}

\* "self.command_callbacks[command]"
CallbacksFor(table, command) == table[command]

\* _trigger_command(command, *args, **kwargs): every callback that is called
\* gets the arguments of the call, "callback(*args, **kwargs)".
\* history in last_trigger: registered is the number of callbacks registered
\* for the command, called their positions in call order, passed what each
\* call was given
TriggerCommandCall(c, a) ==
    /\ last_trigger' =
          IF c \in DOMAIN command_callbacks
          THEN LET r == TriggerCommand(CallbacksFor(command_callbacks, c))
               IN [command |-> c, registered |-> Len(command_callbacks[c]),
                   called |-> r.called, raised |-> r.raised,
                   args |-> a, passed |-> [n \in DOMAIN r.called |-> a]]
          ELSE [command |-> c, registered |-> 0, called |-> <<>>, raised |-> FALSE,
                args |-> a, passed |-> <<>>]
    /\ UNCHANGED <<ebvars, ksh, command_callbacks, kc>>

NextTrigger ==
    \/ \E c \in Commands \cup {"UNKNOWN"}, b \in {"ok", "raises"} : OnCommand(c, b)
    \/ \E c \in Commands \cup {"UNKNOWN"}, a \in TriggerArgs : TriggerCommandCall(c, a)

SpecTrigger == Init /\ [][NextTrigger]_vars

\* C20: when one registered command callback raises, the callbacks
\* registered after it for the same command are still invoked: every call of
\* _trigger_command invokes all callbacks registered for the command.
C20_LaterCallbacksInvoked ==
    last_trigger.called = [i \in 1..last_trigger.registered |-> i]

\* C21: on_command allows several callbacks per command; every
\* _trigger_command call invokes every callback registered for the command
\* exactly once, in registration order, with the arguments of the call, and
\* no callback registered for another command.
C21_EveryCallbackOnce ==
    /\ Len(last_trigger.called) = last_trigger.registered
    /\ \A n \in DOMAIN last_trigger.called : last_trigger.called[n] = n
    /\ \A n \in DOMAIN last_trigger.passed : last_trigger.passed[n] = last_trigger.args

---------------------------------------------------------------------------
(* Part IV: KeyboardController (src/keyboard_controller.py), specification *)
(* SpecKC.  No command callback is registered: a triggered command is      *)
(* recorded in kc_last_cmds.                                               *)

\* Keys as the controller sees them
KcKeys == {"ctrl", "ctrl_l", "ctrl_r", ".", "q"}

\* _parse_key_combination of the start/stop shortcuts the controller may be
\* built with, "ctrl+." and "ctrl_l+.", and of its exit shortcut "ctrl+q"
KcShortcuts == {<<"ctrl", ".">>, <<"ctrl_l", ".">>}
KcExitKeys == <<"ctrl", "q">>

\* self.shortcut_cooldown = 0.5 s
KcShortcutCooldown == 5

\* KeyboardController._is_combination_pressed
KcIsCombinationPressed(combination, pressed) ==
    \A i \in DOMAIN combination :
        LET combo_key == combination[i]
        IN IF combo_key = "." THEN "." \in pressed
           ELSE IF combo_key \notin Modifiers THEN combo_key \in pressed
           ELSE \E k \in KeyEquivalents(combo_key) : k \in pressed

\* _on_key_release: the released key is the period of the shortcut, one of
\* its keys, or an equivalent of one of its modifiers
KcReleaseStops(key_val, combination) ==
    \/ key_val = "." /\ "." \in Range(combination)
    \/ \E i \in DOMAIN combination :
          \/ key_val = combination[i]
          \/ /\ combination[i] \in Modifiers
             /\ key_val \in KeyEquivalents(combination[i])

KcNoEffect ==
    [cmd |-> "NONE", active |-> kc_active, shortcut |-> kc_last_shortcut_time,
     exit |-> FALSE]

\* what _on_key_press decides, given the pressed set after the key was added
KcPressEffect(pressed) ==
    IF KcIsCombinationPressed(KcExitKeys, pressed)
    THEN [KcNoEffect EXCEPT !.cmd = "EXIT", !.exit = TRUE]
    ELSE IF ~KcIsCombinationPressed(kc_start_stop_keys, pressed) THEN KcNoEffect
    ELSE IF kc_recording_mode = "TOGGLE"
    THEN IF now - kc_last_shortcut_time > KcShortcutCooldown
         THEN [KcNoEffect EXCEPT !.shortcut = now, !.active = ~kc_active,
                                 !.cmd = IF kc_active THEN "STOP" ELSE "START"]
         ELSE KcNoEffect
    ELSE IF ~kc_active
    THEN [KcNoEffect EXCEPT !.active = TRUE, !.cmd = "START"]
    ELSE KcNoEffect

KcApply(e) ==
    /\ kc_active' = e.active
    /\ kc_last_shortcut_time' = e.shortcut
    /\ kc_exit_requested' = e.exit
    /\ kc_last_cmds' = IF e.cmd = "NONE" THEN <<>> ELSE <<e.cmd>>

\* KeyboardController._on_key_press
KcKeyPress(k) ==
    /\ ~kc_exit_requested
    /\ kc_pressed_keys' = kc_pressed_keys \cup {k}
    /\ KcApply(KcPressEffect(kc_pressed_keys \cup {k}))
    /\ UNCHANGED <<ebvars, ksh, ih, kc_start_stop_keys, kc_recording_mode,
                   combination_str, parsed, hold_cmds, activity>>

\* KeyboardController._on_key_release
KcKeyRelease(k) ==
    /\ ~kc_exit_requested
    /\ kc_pressed_keys' = kc_pressed_keys \ {k}
    /\ KcApply(IF /\ kc_recording_mode = "HOLD"
                  /\ kc_active
                  /\ KcReleaseStops(k, kc_start_stop_keys)
               THEN [KcNoEffect EXCEPT !.active = FALSE, !.cmd = "STOP"]
               ELSE KcNoEffect)
    /\ UNCHANGED <<ebvars, ksh, ih, kc_start_stop_keys, kc_recording_mode,
                   combination_str, parsed, hold_cmds, activity>>

\* KeyboardController(start_stop_keys, exit_keys, recording_mode)
InitKC ==
    /\ EbInit
    /\ signal_callbacks = <<"publisher">>
    /\ KshInit
    /\ toggle_mode = FALSE
    /\ IhInit
    /\ kc_start_stop_keys \in KcShortcuts
    /\ kc_recording_mode \in {"HOLD", "TOGGLE"}
    /\ kc_pressed_keys = {}
    /\ kc_active = FALSE
    /\ kc_last_shortcut_time = 0
    /\ kc_exit_requested = FALSE
    /\ kc_last_cmds = <<>>
    /\ combination_str = <<>>
    /\ parsed = NotParsed
    /\ hold_cmds = <<>>
    /\ activity = ActivityInit

NextKC ==
    \/ \E k \in KcKeys : KcKeyPress(k)
    \/ \E k \in KcKeys : KcKeyRelease(k)
    \/ Tick

SpecKC == InitKC /\ [][NextKC]_vars

\* C13: key-combination matching treats left/right modifier variants as
\* equivalent: replacing a pressed generic modifier by its _l or _r variant
\* does not change the result, and a combination is satisfied exactly when
\* every one of its keys, or an equivalent of it, is in the pressed set.
\* Stated of _is_combination_pressed and of the event-based _is_combo_pressed,
\* for the controller's combinations and every pressed set it reaches.
EquivalenceGroup(key) ==
    IF \E m \in Modifiers : key \in KeyEquivalents(m)
    THEN KeyEquivalents(CHOOSE m \in Modifiers : key \in KeyEquivalents(m))
    ELSE {key}
SatisfiedUpToEquivalence(combination, pressed) ==
    \A i \in DOMAIN combination :
        \E e \in EquivalenceGroup(combination[i]) : e \in pressed
VariantSubstitutions(pressed) ==
    {(pressed \ {m}) \cup {v} :
        m \in pressed \cap Modifiers, v \in {"ctrl_l", "ctrl_r"}}
C13_VariantsEquivalent ==
    \A combination \in {kc_start_stop_keys, KcExitKeys} :
        /\ \A substituted \in VariantSubstitutions(kc_pressed_keys) :
              /\ KcIsCombinationPressed(combination, substituted)
                    = KcIsCombinationPressed(combination, kc_pressed_keys)
              /\ IsComboPressed(Range(combination), substituted)
                    = IsComboPressed(Range(combination), kc_pressed_keys)
        /\ KcIsCombinationPressed(combination, kc_pressed_keys)
              <=> SatisfiedUpToEquivalence(combination, kc_pressed_keys)
        /\ IsComboPressed(Range(combination), kc_pressed_keys)
              <=> SatisfiedUpToEquivalence(combination, kc_pressed_keys)

---------------------------------------------------------------------------
(* Part IV, the shortcut parser by itself (specification SpecParse):       *)
(* _parse_key_combination applied to every shortcut string of at most     *)
(* MaxLen characters.                                                      *)

\* KeyboardController(start_stop_keys = combination_str)
InitParse ==
    /\ EbInit
    /\ signal_callbacks = <<"publisher">>
    /\ KshInit
    /\ toggle_mode = FALSE
    /\ IhInit
    /\ kc_start_stop_keys = <<>>
    /\ kc_recording_mode = "TOGGLE"
    /\ kc_pressed_keys = {}
    /\ kc_active = FALSE
    /\ kc_last_shortcut_time = 0
    /\ kc_exit_requested = FALSE
    /\ kc_last_cmds = <<>>
    /\ combination_str \in Strings
    /\ parsed = NotParsed
    /\ hold_cmds = <<>>
    /\ activity = ActivityInit

\* "self.start_stop_keys = self._parse_key_combination(start_stop_keys)"
ParseCall ==
    /\ parsed = NotParsed
    /\ parsed' = ParseKeyCombination(combination_str)
    /\ kc_start_stop_keys' = parsed'.keys
    /\ UNCHANGED <<ebvars, ksh, ih, kc_recording_mode, kc_pressed_keys, kc_active,
                   kc_last_shortcut_time, kc_exit_requested, kc_last_cmds,
                   combination_str, hold_cmds, activity>>

NextParse == ParseCall

SpecParse == InitParse /\ [][NextParse]_vars

\* the string is empty, starts or ends with "+", or has "++"
HasEmptySegment(str) ==
    \/ str = <<>>
    \/ str[1] = "+"
    \/ str[Len(str)] = "+"
    \/ \E i \in 1..(Len(str) - 1) : str[i] = "+" /\ str[i + 1] = "+"

\* C27: parsing a shortcut string with an empty segment ("ctrl++a", a
\* leading or trailing "+", or the empty string) fails with an
\* InvalidCombination error and returns no key combination.
C27_EmptySegmentRejected ==
    (parsed # NotParsed /\ HasEmptySegment(combination_str)) =>
        parsed.raised = "InvalidCombination"

---------------------------------------------------------------------------
(* Part V: the key-event callback of StatefulKeyboardHandler statement by  *)
(* statement (specification SpecRace).  start() makes a new               *)
(* keyboard.Listener thread at every call and stops none; each listener    *)
(* thread runs its callbacks one after the other, and the handler takes no *)
(* lock, so the callbacks of two listener threads interleave between       *)
(* statements.  The key events followed are presses of the activation key. *)

\* pc: idle, read_state, read_elif, new_session, set_recording, emit_start,
\* stop, reset
ListenerInit == [pc |-> "idle", session_id |-> None]

InCallback == {t \in DOMAIN listeners : listeners[t].pc # "idle"}

RaceFrame == <<tasks, active_workflows, start_calls, wf, ksh, ih, kc>>

\* start(): self._listener = keyboard.Listener(...); self._listener.start()
HandlerStart ==
    /\ Len(listeners) < MaxListeners
    /\ listeners' = Append(listeners, ListenerInit)
    /\ UNCHANGED <<h_pressed_keys, recording_state, current_session_id, next_uuid,
                   emitted, handler_calls, last_exit, signal_callbacks, delivered,
                   propagated, RaceFrame>>

\* _on_key_press on listener thread t: the key is added and the activation
\* combination is satisfied, so _handle_activation is entered
ListenerKeyPress(t) ==
    /\ t \in DOMAIN listeners
    /\ listeners[t].pc = "idle"
    /\ Len(emitted) + Cardinality(InCallback) < MaxSignals
    /\ next_uuid + Cardinality(InCallback) < MaxSessions
    /\ h_pressed_keys' = h_pressed_keys \cup ActivationKeys
    /\ listeners' = [listeners EXCEPT ![t].pc = "read_state"]
    /\ UNCHANGED <<recording_state, current_session_id, next_uuid, emitted,
                   handler_calls, last_exit, signal_callbacks, delivered,
                   propagated, RaceFrame>>

\* _on_key_release on listener thread t: self._pressed_keys.discard(key)
ListenerKeyRelease(t) ==
    /\ t \in DOMAIN listeners
    /\ listeners[t].pc = "idle"
    /\ h_pressed_keys # {}
    /\ h_pressed_keys' = h_pressed_keys \ ActivationKeys
    /\ UNCHANGED <<recording_state, current_session_id, next_uuid, emitted,
                   handler_calls, last_exit, signal_callbacks, delivered,
                   propagated, listeners, RaceFrame>>

\* "if self.recording_state == RecordingState.IDLE:"
ActivationReadState(t) ==
    /\ t \in DOMAIN listeners
    /\ listeners[t].pc = "read_state"
    /\ listeners' = [listeners EXCEPT ![t].pc =
                        IF recording_state = "IDLE" THEN "new_session" ELSE "read_elif"]
    /\ handler_calls' = Append(handler_calls, "activation")
    /\ UNCHANGED <<h_pressed_keys, recording_state, current_session_id, next_uuid,
                   emitted, last_exit, signal_callbacks, delivered, propagated,
                   RaceFrame>>

\* "elif self.recording_state == RecordingState.RECORDING:", a second read;
\* with neither branch taken the call returns
ActivationReadElif(t) ==
    /\ t \in DOMAIN listeners
    /\ listeners[t].pc = "read_elif"
    /\ listeners' = [listeners EXCEPT ![t].pc =
                        IF recording_state = "RECORDING" THEN "stop" ELSE "idle"]
    /\ UNCHANGED <<h_pressed_keys, recording_state, current_session_id, next_uuid,
                   emitted, handler_calls, last_exit, signal_callbacks, delivered,
                   propagated, RaceFrame>>

\* "session_id = f'session-{uuid.uuid4()}'; self.current_session_id = session_id"
ActivationNewSession(t) ==
    /\ t \in DOMAIN listeners
    /\ listeners[t].pc = "new_session"
    /\ LET session_id == NewSessionId(next_uuid)
       IN /\ next_uuid' = next_uuid + 1
          /\ current_session_id' = session_id
          /\ listeners' = [listeners EXCEPT ![t].pc = "set_recording",
                                            ![t].session_id = session_id]
    /\ UNCHANGED <<h_pressed_keys, recording_state, emitted, handler_calls,
                   last_exit, signal_callbacks, delivered, propagated, RaceFrame>>

\* "self.recording_state = RecordingState.RECORDING"
ActivationSetRecording(t) ==
    /\ t \in DOMAIN listeners
    /\ listeners[t].pc = "set_recording"
    /\ recording_state' = "RECORDING"
    /\ listeners' = [listeners EXCEPT ![t].pc = "emit_start"]
    /\ UNCHANGED <<h_pressed_keys, current_session_id, next_uuid, emitted,
                   handler_calls, last_exit, signal_callbacks, delivered,
                   propagated, RaceFrame>>

\* what _emit_signal(signal) leaves in the history
RaceEmit(signal) ==
    LET r == EmitSignal(signal_callbacks, signal)
    IN /\ emitted' = Append(emitted, signal)
       /\ delivered' = Append(delivered,
                              [registered |-> Len(signal_callbacks),
                               called |-> [n \in DOMAIN r.called |->
                                             <<r.called[n], signal>>]])
       /\ propagated' = r.raised

\* "signal = StartRecordingSignal(session_id, ...); self._emit_signal(signal)"
ActivationEmitStart(t) ==
    /\ t \in DOMAIN listeners
    /\ listeners[t].pc = "emit_start"
    /\ RaceEmit(StartRecordingSignal(listeners[t].session_id))
    /\ listeners' = [listeners EXCEPT ![t] = ListenerInit]
    /\ UNCHANGED <<h_pressed_keys, recording_state, current_session_id, next_uuid,
                   handler_calls, last_exit, signal_callbacks, RaceFrame>>

\* "if self.current_session_id: ... self._emit_signal(StopRecordingSignal(...))"
ActivationStop(t) ==
    /\ t \in DOMAIN listeners
    /\ listeners[t].pc = "stop"
    /\ IF current_session_id # None
       THEN RaceEmit(StopRecordingSignal(current_session_id))
       ELSE UNCHANGED <<emitted, delivered, propagated>>
    /\ listeners' = [listeners EXCEPT ![t].pc = "reset"]
    /\ UNCHANGED <<h_pressed_keys, recording_state, current_session_id, next_uuid,
                   handler_calls, last_exit, signal_callbacks, RaceFrame>>

\* "self.recording_state = RecordingState.IDLE; self.current_session_id = None"
ActivationReset(t) ==
    /\ t \in DOMAIN listeners
    /\ listeners[t].pc = "reset"
    /\ recording_state' = "IDLE"
    /\ current_session_id' = None
    /\ listeners' = [listeners EXCEPT ![t] = ListenerInit]
    /\ UNCHANGED <<h_pressed_keys, next_uuid, emitted, handler_calls, last_exit,
                   signal_callbacks, delivered, propagated, RaceFrame>>

\* a handler on which on_signal has not been called
InitRace == InitEmit

NextRace ==
    \/ HandlerStart
    \/ \E t \in 1..MaxListeners : ListenerKeyPress(t)
    \/ \E t \in 1..MaxListeners : ListenerKeyRelease(t)
    \/ \E t \in 1..MaxListeners : ActivationReadState(t)
    \/ \E t \in 1..MaxListeners : ActivationReadElif(t)
    \/ \E t \in 1..MaxListeners : ActivationNewSession(t)
    \/ \E t \in 1..MaxListeners : ActivationSetRecording(t)
    \/ \E t \in 1..MaxListeners : ActivationEmitStart(t)
    \/ \E t \in 1..MaxListeners : ActivationStop(t)
    \/ \E t \in 1..MaxListeners : ActivationReset(t)

SpecRace == InitRace /\ [][NextRace]_vars

\* C29: reads and updates of recording_state and current_session_id are
\* mutually exclusive: of two key events processed concurrently while the
\* state is IDLE at most one observes IDLE and emits a StartRecordingSignal.
ObservedIdle ==
    {t \in DOMAIN listeners :
        listeners[t].pc \in {"new_session", "set_recording", "emit_start"}}
C29_AtMostOneObservesIdle ==
    /\ Cardinality(ObservedIdle) <= 1
    /\ \A i, j \in DOMAIN emitted :
          (i < j /\ emitted[i].type = "Start" /\ emitted[j].type = "Start")
             => \E n \in (i + 1)..(j - 1) : emitted[n].type = "Stop"

---------------------------------------------------------------------------
(* Part VI: one hold of the record combination in toggle mode              *)
(* (specification SpecHold).  The keyboard repeats the press event of a    *)
(* held key: KeyboardShortcutHandler gets press events for keys that are   *)
(* already in pressed_keys.  hold_cmds is what the press events triggered  *)
(* since the last release event.                                           *)

HoldKeys == Range(RecordKeys)

HoldKeyPress(k) ==
    /\ KshPress(k)
    /\ hold_cmds' = hold_cmds \o last_cmds'
    /\ UNCHANGED <<ebvars, ih, kcfields, activity>>

HoldKeyRelease(k) ==
    /\ k \in pressed_keys
    /\ KshRelease(k)
    /\ hold_cmds' = <<>>
    /\ UNCHANGED <<ebvars, ih, kcfields, activity>>

\* KeyboardShortcutHandler(toggle_mode=True)
InitHold ==
    /\ InitKSH
    /\ toggle_mode

NextHold ==
    \/ \E k \in HoldKeys : HoldKeyPress(k)
    \/ \E k \in HoldKeys : HoldKeyRelease(k)
    \/ Tick

SpecHold == InitHold /\ [][NextHold]_vars

\* C30: toggle mode collapses a key-repeat flood into a single edge: while
\* the record combination stays held with no release in between, the press
\* events of that hold trigger at most one command in total, never a
\* START_RECORDING followed by a STOP_RECORDING.
C30_OneCommandPerHold ==
    /\ Len(hold_cmds) <= 1
    /\ \A i \in DOMAIN hold_cmds :
          (i > 1 /\ hold_cmds[i] = "STOP_RECORDING")
             => hold_cmds[i - 1] # "START_RECORDING"

\* The previous accepted toggle edge.  SpecHold presses the keys of the record
\* combination only, so is_recording became TRUE at the last START_RECORDING
\* (recording_start_time) and FALSE at the last STOP_RECORDING
\* (last_recording_end_time); 0 when no edge was accepted yet.
LastAcceptedEdge ==
    IF is_recording THEN recording_start_time ELSE last_recording_end_time

\* the gate of the command a toggle press would trigger now
RelevantGate ==
    IF is_recording THEN CanStopRecording(now, recording_start_time)
    ELSE CanStartRecording(now, last_recording_end_time)

\* C31: toggle mode measures the debounce window from the previous accepted
\* toggle edge: a press of the record combination made when more than the
\* window has elapsed since that edge, and the cooldown or minimum-duration
\* gate holds, triggers its command, whatever presses were dropped in between.
C31_WindowFromAcceptedEdge ==
    [][\A k \in HoldKeys :
          ( /\ HoldKeyPress(k)
            /\ IsCombinationPressed(RecordKeys, pressed_keys \cup {k})
            /\ now - LastAcceptedEdge > ShortcutCooldown
            /\ RelevantGate )
          => last_cmds' = <<IF is_recording THEN "STOP_RECORDING"
                            ELSE "START_RECORDING">>]_vars

---------------------------------------------------------------------------
(* Part VII: one execution of record_audio_activity                        *)
(* (src/event_based/recording_workflow.py) with the AudioRecorder it       *)
(* creates (src/audio_recorder.py), specification SpecActivity.  The sound *)
(* device delivers chunks while the recorder is active; the workflow may   *)
(* request cancellation, which the activity gets at the await after a      *)
(* heartbeat.                                                              *)

\* "elapsed > 300" with one pass of the loop every 0.5 s, counted in passes
CeilingPasses == 6

ActVars == <<ebvars, ksh, ih, kcfields, hold_cmds>>

\* the finally block: the recorder is stopped, and what was recorded is
\* written to the temp file if there is any; then the function leaves as it
\* was leaving (outcome: returned, raised, cancelled)
RecordAudioFinally(a, outcome) ==
    [a EXCEPT !.recorder_active = FALSE,
              !.temp_file = a.chunks > 0,
              !.pc = outcome]

\* recorder.start_recording(): is_recording is set, then the input stream is
\* opened, which may raise
RecordAudioStart ==
    /\ activity.pc = "scheduled"
    /\ \/ activity' = [activity EXCEPT !.pc = "loop", !.recorder_active = TRUE]
       \/ activity' = RecordAudioFinally([activity EXCEPT !.recorder_active = TRUE],
                                         "raised")
    /\ UNCHANGED ActVars

\* AudioRecorder._audio_callback on the sound device's thread
AudioCallback ==
    /\ activity.recorder_active
    /\ activity.chunks < MaxChunks
    /\ activity' = [activity EXCEPT !.chunks = @ + 1]
    /\ UNCHANGED ActVars

\* one pass of "while recorder.is_active()" with no cancellation pending:
\* heartbeat, the ceiling test, the sleep
RecordAudioLoop ==
    /\ activity.pc = "loop"
    /\ ~activity.cancel_requested
    /\ activity' = IF activity.elapsed > CeilingPasses
                   THEN RecordAudioFinally(activity, "returned")
                   ELSE [activity EXCEPT !.elapsed = @ + 1]
    /\ UNCHANGED ActVars

\* the workflow cancels its recording task (_cancel_recording)
RequestCancellation ==
    /\ activity.pc \in {"scheduled", "loop"}
    /\ ~activity.cancel_requested
    /\ activity' = [activity EXCEPT !.cancel_requested = TRUE]
    /\ UNCHANGED ActVars

\* the pass that finds the cancellation: asyncio.CancelledError at the sleep,
\* "except asyncio.CancelledError: raise", and the finally block on the way out
RecordAudioCancelled ==
    /\ activity.pc = "loop"
    /\ activity.cancel_requested
    /\ activity' = RecordAudioFinally(activity, "cancelled")
    /\ UNCHANGED ActVars

InitActivity == Init

NextActivity ==
    \/ RecordAudioStart
    \/ AudioCallback
    \/ RecordAudioLoop
    \/ RequestCancellation
    \/ RecordAudioCancelled

SpecActivity == InitActivity /\ [][NextActivity]_vars

\* C40: a cancelled recording leaves no audio artifact: when the recording
\* activity has been cancelled, no audio file was written for the session.
C40_CancelLeavesNoFile ==
    activity.pc = "cancelled" => ~activity.temp_file

===========================================================================
